---- MODULE Spec2Model ----
(***************************************************************************)
(* A state-machine model of whoop-scraper: the OAuth2 token lifecycle      *)
(* (auth.py), the paginated API client (api_client.py), the ingestion      *)
(* orchestrator (scraper.py, __init__.py) and the upserts                  *)
(* (db/operations.py, db/schema.py).                                       *)
(*                                                                         *)
(* Times are seconds.  Opaque strings (access tokens, refresh tokens) are  *)
(* integers: pair 0 is the pair of the environment variables, pair n > 0   *)
(* is the n-th pair the provider issued.                                   *)
(***************************************************************************)
EXTENDS Integers, Sequences, FiniteSets, TLC

----------------------------------------------------------------------------
(* Bounds of the model *)

\* clock ticks a behaviour may take
MaxTicks == 2
\* token pairs the provider may issue in one behaviour
MaxIssue == 2

(* Program constants *)

\* auth.py:63  timedelta(minutes=5)
BufferSeconds == 300
\* auth.py:87  response.get("expires_in", 3600)
DefaultExpiresIn == 3600
\* auth.py:138 timedelta(days=365)
YearSeconds == 31536000
\* the clock advances in steps of the length of the expiry buffer
TickSeconds == BufferSeconds
\* a Fernet ciphertext of the string v is the string FernetTag + v
FernetTag == 100

----------------------------------------------------------------------------
VARIABLES
    now,          \* datetime.now(UTC)
    storageKind,  \* "file": TokenStorage, "db": DatabaseTokenStorage
    envSet,       \* settings.access_token and settings.refresh_token
    cipherOn,     \* DatabaseTokenStorage._cipher is not None
    file,         \* the token file: NoFile or [content, mode]
    dbRow,        \* row id = 1 of whoop_oauth_tokens: NoRow or the columns
    tokens,       \* WhoopAuth._tokens
    issued,       \* provider: number of pairs issued so far
    usedOK,       \* provider: refresh tokens consumed by a successful refresh
    rotated,      \* provider: a refresh or a code exchange has succeeded
    pc,           \* per caller: position inside get_valid_token / refresh_tokens
    loc,          \* per caller: locals of the call in progress
    ret,          \* per caller: outcome of the last completed call
    lastLoad,     \* per caller: what storage.load() returned to its last call
                  \* (NoLoad when that call did not load)
    lastReq,      \* the last request received by the token endpoint
    store,        \* outcome of the last direct save / load / clear on the store
    aiPc,         \* authorize_interactive: "idle" or "joining" (server_thread.join)
    attempts,     \* authorize_interactive calls started so far
    nonce,        \* expected_state of the current attempt
    aiStart,      \* instant at which the current attempt began to wait
    socketOpen,   \* the HTTPServer socket of the current attempt is open
    hCode,        \* OAuthCallbackHandler.authorization_code (-1: None)
    hState,       \* OAuthCallbackHandler.state (-1: None)
    hError,       \* OAuthCallbackHandler.error (-1: None)
    hPc,          \* per attempt: position of its server thread
    hReq,         \* per attempt: the request its server thread received
    aiRet,        \* outcome of the last completed authorize_interactive
    pgPc,         \* _get_paginated: "idle", "loop", "returned" or "raised"
    pgPages,      \* the endpoint: its pages, each [records, next_token]
    allRecords,   \* _get_paginated: all_records
    nextToken,    \* _get_paginated: next_token (-1: None, 0: "", n > 0: a cursor)
    pgSent,       \* the nextToken parameter of each request sent (-1: none)
    cycleRows,    \* whoop_cycle as the connection sees it (uncommitted rows included)
    cycleDurable, \* whoop_cycle as committed
    upTx,         \* the connection's transaction: "idle", "intrans" or "inerror"
    upPc,         \* upsert_cycles: "idle" or "loop"
    upCount,      \* upsert_cycles: records executed so far in this call
    upRet,        \* outcome of the last completed upsert_cycles
    upCalls,      \* upsert_cycles calls made so far
    upLast,       \* the last statement executed: its payload, whether the id existed
    scPc,         \* the scrape command: "idle", "open" (inside `with connect`) or "done"
    scIdx,        \* scrape_all: index of the next category
    stats,        \* WhoopScraper.stats: the entry of each category
    scTx,         \* transaction state of scrape_all's connection
    scDurable,    \* categories with rows this run committed
    scPending,    \* categories with rows written in the open transaction
    scLog,        \* per category: was it attempted, did its fetch and its upsert complete
    scResult,     \* how scrape_all ended: "none", "returned" or "raised"
    exitCode,     \* the process exit status (-1: still running)
    tsKind,       \* the time-series category whose table is followed
    tsRows,       \* the rows of that table
    tsLast,       \* the last upsert on it: payload, whether the key existed, created_at before
    expiry,       \* the last direct is_expired() call: token, instant, value returned
    clPc,         \* WhoopAPIClient._get: "idle", or "token" (in self.auth.get_valid_token)
    clPage,       \* pages of the current paginated fetch received so far
    clCalls,      \* get_valid_token calls begun by the current _get
    clGet,        \* the last GET sent: bearer, what get_valid_token had returned, ...
    parsed,       \* the last direct from_token_response(): body, instant, result
    oPc,          \* two authorize_interactive calls in one process: "idle", "joining", "done"
    oStart,       \* per call: the instant it began to wait
    oRet          \* per call: its outcome, the code it exchanged, its listener's request

confVars == <<storageKind, envSet, cipherOn>>
diskVars == <<file, dbRow>>
provVars == <<issued, usedOK, rotated>>
callVars == <<pc, loc, ret, lastLoad>>

authVars == <<now, confVars, diskVars, tokens, provVars, callVars, lastReq, store>>

aiVars == <<aiPc, attempts, nonce, aiStart, socketOpen, hCode, hState, hError, hPc,
            hReq, aiRet>>

pageVars == <<pgPc, pgPages, allRecords, nextToken, pgSent>>

upsertVars == <<cycleRows, cycleDurable, upTx, upPc, upCount, upRet, upCalls, upLast>>

scrapeVars == <<scPc, scIdx, stats, scTx, scDurable, scPending, scLog, scResult,
                exitCode>>

tsVars == <<tsKind, tsRows, tsLast>>

expiryVars == <<expiry>>

clientVars == <<clPc, clPage, clCalls, clGet>>

parseVars == <<parsed>>

overlapVars == <<oPc, oStart, oRet>>

nonAuthVars == <<aiVars, pageVars, upsertVars, scrapeVars, tsVars, expiryVars, clientVars,
                 parseVars, overlapVars>>

vars == <<authVars, nonAuthVars>>

----------------------------------------------------------------------------
(* OAuthTokens *)

NoToken == [none |-> TRUE]

Token(a, r, e, tt) ==
    [access_token |-> a, refresh_token |-> r, expires_at |-> e, token_type |-> tt]

\* an expiry check that lets the boundary instant pass
IsExpiredStrict(tok, t) == t > tok.expires_at - BufferSeconds

\* OAuthTokens.is_expired at instant t
IsExpired(tok, t) == t >= tok.expires_at - BufferSeconds

\* datetime.isoformat / datetime.fromisoformat
IsoFormat(e) == [iso |-> e]
FromIsoFormat(s) == s.iso

\* OAuthTokens.to_dict
ToDict(tok) ==
    [access_token |-> tok.access_token, refresh_token |-> tok.refresh_token,
     expires_at |-> IsoFormat(tok.expires_at), token_type |-> tok.token_type]

\* OAuthTokens.from_dict
FromDict(d) ==
    Token(d.access_token, d.refresh_token, FromIsoFormat(d.expires_at), d.token_type)

\* a parse that takes a missing expires_in for a lifetime of zero seconds
FromTokenResponseNoDefault(resp, t) ==
    Token(resp.access_token, resp.refresh_token,
          t + (IF resp.expires_in = -1 THEN 0 ELSE resp.expires_in),
          IF resp.token_type = "absent" THEN "bearer" ELSE resp.token_type)

\* OAuthTokens.from_token_response: resp.expires_in = -1 and
\* resp.token_type = "absent" stand for a response without the field
FromTokenResponse(resp, t) ==
    Token(resp.access_token, resp.refresh_token,
          t + (IF resp.expires_in = -1 THEN DefaultExpiresIn ELSE resp.expires_in),
          IF resp.token_type = "absent" THEN "bearer" ELSE resp.token_type)

\* a parse that reads both keys with .get, as it reads the optional ones
ResponseParsesLenient(resp) == TRUE

\* whether from_token_response returns: response["access_token"] and
\* response["refresh_token"] raise KeyError on a body without the key (-1)
ResponseParses(resp) == resp.access_token # -1 /\ resp.refresh_token # -1

\* the pair of the environment variables (settings.access_token, settings.refresh_token)
EnvAccess == 0
EnvRefresh == 0

----------------------------------------------------------------------------
(* Results of load() *)

Loaded(tok, src) == [kind |-> "token", tok |-> tok, src |-> src]
Absent == [kind |-> "absent", tok |-> NoToken, src |-> "none"]
LoadRaised(exc) == [kind |-> "raise", tok |-> NoToken, src |-> exc]

(* TokenStorage: the file variant *)

NoFile == [none |-> TRUE]
ModeOwnerOnly == "0600"

\* a save without the chmod: a new file gets the mode the umask leaves
FileSaveNoChmod(tok) ==
    [content |-> [kind |-> "object", dict |-> ToDict(tok)], mode |-> "0644"]

\* the file after TokenStorage.save(tok): write_text(json.dumps(to_dict)), chmod(0o600)
FileSave(tok) ==
    [content |-> [kind |-> "object", dict |-> ToDict(tok)], mode |-> ModeOwnerOnly]

\* a load that reads the file before it looks at the environment
FileLoadFileFirst(f, env, t) ==
    IF f # NoFile /\ f.content.kind = "object"
    THEN Loaded(FromDict(f.content.dict), "file")
    ELSE IF env
    THEN Loaded(Token(EnvAccess, EnvRefresh, t + YearSeconds, "bearer"), "env")
    ELSE Absent

\* TokenStorage.load at instant t.  A file content is a JSON object with the four
\* keys ("object"), not JSON at all ("invalid_json"), a JSON object lacking a
\* key ("missing_key"), JSON that is no object ("not_object") or an object
\* whose expires_at is no ISO-8601 string ("bad_iso")
FileLoad(f, env, t) ==
    IF env
    THEN Loaded(Token(EnvAccess, EnvRefresh, t + YearSeconds, "bearer"), "env")
    ELSE IF f = NoFile
    THEN Absent
    ELSE CASE f.content.kind = "object" -> Loaded(FromDict(f.content.dict), "file")
           [] f.content.kind \in {"invalid_json", "missing_key"} -> Absent
           [] f.content.kind = "not_object" -> LoadRaised("TypeError")
           [] OTHER -> LoadRaised("ValueError")

\* a clear that leaves the file where it is
FileClearKeeps(f) == f

\* the file after TokenStorage.clear
FileClear(f) == NoFile

(* DatabaseTokenStorage *)

NoRow == [none |-> TRUE]

\* DatabaseTokenStorage._encrypt
Encrypt(cipher, v) == IF cipher THEN FernetTag + v ELSE v

\* whether DatabaseTokenStorage._decrypt returns (Fernet raises InvalidToken on
\* a string that is no ciphertext)
DecryptOk(cipher, c) == ~cipher \/ c >= FernetTag

\* a _decrypt that hands back the column as it is
DecryptSkipped(cipher, c) == c

\* DatabaseTokenStorage._decrypt
Decrypt(cipher, c) == IF cipher THEN c - FernetTag ELSE c

\* the row after DatabaseTokenStorage.save(tok)
RowSave(cipher, tok) ==
    [access_token |-> Encrypt(cipher, tok.access_token),
     refresh_token |-> Encrypt(cipher, tok.refresh_token),
     expires_at |-> tok.expires_at,
     token_type |-> tok.token_type]

\* a load whose bootstrap token gets the file variant's one-year expiry
DbLoadLongLivedBootstrap(row, dbOk, cipher, env, t) ==
    IF dbOk /\ row # NoRow
    THEN Loaded(Token(Decrypt(cipher, row.access_token), Decrypt(cipher, row.refresh_token),
                      row.expires_at,
                      IF row.token_type = "" THEN "bearer" ELSE row.token_type), "db")
    ELSE IF env
    THEN Loaded(Token(EnvAccess, EnvRefresh, t + YearSeconds, "bearer"), "bootstrap")
    ELSE Absent

\* a load that prefers the environment tokens to the row
DbLoadEnvFirst(row, dbOk, cipher, env, t) ==
    IF env
    THEN Loaded(Token(EnvAccess, EnvRefresh, t, "bearer"), "bootstrap")
    ELSE IF dbOk /\ row # NoRow
    THEN Loaded(Token(Decrypt(cipher, row.access_token),
                      Decrypt(cipher, row.refresh_token),
                      row.expires_at,
                      IF row.token_type = "" THEN "bearer" ELSE row.token_type),
                "db")
    ELSE Absent

\* DatabaseTokenStorage.load at instant t; dbOk = FALSE: the query raises psycopg.Error
DbLoad(row, dbOk, cipher, env, t) ==
    IF dbOk /\ row # NoRow
    THEN IF DecryptOk(cipher, row.access_token) /\ DecryptOk(cipher, row.refresh_token)
         THEN Loaded(Token(Decrypt(cipher, row.access_token),
                           Decrypt(cipher, row.refresh_token),
                           row.expires_at,
                           IF row.token_type = "" THEN "bearer" ELSE row.token_type),
                     "db")
         ELSE LoadRaised("InvalidToken")
    ELSE IF env
    THEN Loaded(Token(EnvAccess, EnvRefresh, t, "bearer"), "bootstrap")
    ELSE Absent

(* The store configured for the WhoopAuth instance *)

\* self.storage.load()
StorageLoad(dbOk) ==
    IF storageKind = "file"
    THEN FileLoad(file, envSet, now)
    ELSE DbLoad(dbRow, dbOk, cipherOn, envSet, now)

\* a save that swallows the database error
SaveNeverRaises(dbOk) == FALSE

\* self.storage.save(tok) raises (psycopg.Error on connect / execute / commit)
SaveRaises(dbOk) == storageKind = "db" /\ ~dbOk

\* the effect of self.storage.save(tok) on the file and the row
StorageSave(tok, dbOk) ==
    IF storageKind = "file"
    THEN file' = FileSave(tok) /\ dbRow' = dbRow
    ELSE IF dbOk
    THEN dbRow' = RowSave(cipherOn, tok) /\ file' = file
    ELSE UNCHANGED <<file, dbRow>>

\* the effect of self.storage.clear()
StorageClear(dbOk) ==
    IF storageKind = "file"
    THEN file' = FileClear(file) /\ dbRow' = dbRow
    ELSE IF dbOk
    THEN dbRow' = NoRow /\ file' = file
    ELSE UNCHANGED <<file, dbRow>>

\* the store holds exactly what save(tok) writes
Persisted(tok, f, row) ==
    IF storageKind = "file" THEN f = FileSave(tok) ELSE row = RowSave(cipherOn, tok)

----------------------------------------------------------------------------
(* WhoopAuth: get_valid_token, refresh_tokens, exchange_code.              *)
(* A call that sends a refresh request takes two steps, the second being   *)
(* the POST and everything after it; other callers may run in between.     *)

Callers == {1, 2}

\* lifetimes (expires_in) the token endpoint answers with; -1: field absent
ExpiresInChoices == {BufferSeconds, 3 * BufferSeconds, -1}

NoLocals == [rt |-> -1, caller |-> "none", src |-> "none"]

\* outcome of a completed call: op, outcome ("ok" or the error raised), the
\* token returned, whether that token was expired at return time, the kind of
\* token load() had returned, whether it was expired, the refresh token sent
\* in a refresh request (-1: none sent), and whether the store held the
\* returned token at return
Outcome(op, outcome, tok, src, loadedExpired, rtSent, f, row) ==
    [op |-> op, outcome |-> outcome, tok |-> tok,
     expired |-> IF tok = NoToken THEN FALSE ELSE IsExpired(tok, now),
     src |-> src, loadedExpired |-> loadedExpired,
     refreshed |-> rtSent # -1, rtSent |-> rtSent,
     persisted |-> IF tok = NoToken THEN FALSE ELSE Persisted(tok, f, row)]

NoOutcome == Outcome("none", "none", NoToken, "none", FALSE, -1, file, dbRow)

NoRequest == [grant |-> "none", refresh_token |-> -1, stale |-> FALSE,
              latest |-> TRUE, status |-> 0, lacks |-> "none", by |-> 0]

\* what load() returned, as the caller uses it: the kind of result and the
\* refresh token of the token returned (-1: none)
NoLoad == [kind |-> "none", rt |-> -1]

LoadSeen(res) ==
    [kind |-> res.kind, rt |-> IF res.kind = "token" THEN res.tok.refresh_token ELSE -1]

\* the token endpoint accepts refresh token r: it was issued and not yet consumed
ProviderAccepts(r) == r \in 0..issued /\ r \notin usedOK

\* the body of a 200 answer carrying pair n
TokenResponse(n, expiresIn, tokenType) ==
    [access_token |-> n, refresh_token |-> n, expires_in |-> expiresIn,
     token_type |-> tokenType]

\* keys a 200 answer may come without
LackChoices == {"none", "access_token", "refresh_token"}

\* the bodies of a 200 answer: complete with each lifetime, or without one of
\* the two required keys (expires_in is then never read)
BodyChoices ==
    {[expires_in |-> e, lacks |-> "none"] : e \in ExpiresInChoices}
        \cup {[expires_in |-> -1, lacks |-> k] : k \in LackChoices \ {"none"}}

\* a body without the key named by lacks
Lacking(resp, lacks) ==
    [resp EXCEPT !.access_token = IF lacks = "access_token" THEN -1 ELSE @,
                 !.refresh_token = IF lacks = "refresh_token" THEN -1 ELSE @]

\* bodies handed to from_token_response directly: each lifetime (zero and
\* the default's own value among them) or none, a token_type or none
ParseBodies ==
    {Lacking(TokenResponse(n, e, tt), k) :
        n \in 1..MaxIssue, e \in ExpiresInChoices \cup {0, DefaultExpiresIn},
        tt \in {"absent", "bearer", "mac"}, k \in LackChoices}

NoParse == [resp |-> TokenResponse(-1, -1, "absent"), at |-> -1, outcome |-> "none",
            tok |-> NoToken]

ParseInit == parsed = NoParse

\* OAuthTokens.from_token_response(resp) at the present instant
FromTokenResponseCall(resp) ==
    parsed' = IF ResponseParses(resp)
              THEN [resp |-> resp, at |-> now, outcome |-> "ok",
                    tok |-> FromTokenResponse(resp, now)]
              ELSE [resp |-> resp, at |-> now, outcome |-> "KeyError", tok |-> NoToken]

\* a get_valid_token that goes to the store whatever the cache holds
GetValidTokenPathNoCache(cache, res, t) ==
    IF res.kind = "raise" THEN "raise"
    ELSE IF res.kind = "absent" THEN "NotAuthenticated"
    ELSE IF IsExpired(res.tok, t) THEN "refresh"
    ELSE "loaded"

\* a get_valid_token that takes an absent load for a usable cache
GetValidTokenPathIgnoresAbsent(cache, res, t) ==
    IF cache # NoToken /\ ~IsExpired(cache, t) THEN "cached"
    ELSE IF res.kind = "raise" THEN "raise"
    ELSE IF res.kind = "absent" THEN "cached"
    ELSE IF IsExpired(res.tok, t) THEN "refresh"
    ELSE "loaded"

\* the way get_valid_token takes (auth.py 439-450) given the cache and what
\* load() returns
GetValidTokenPath(cache, res, t) ==
    IF cache # NoToken /\ ~IsExpired(cache, t) THEN "cached"
    ELSE IF res.kind = "raise" THEN "raise"
    ELSE IF res.kind = "absent" THEN "NotAuthenticated"
    ELSE IF IsExpired(res.tok, t) THEN "refresh"
    ELSE "loaded"

\* a refresh_tokens() that sends the refresh token of the environment
RefreshTokenFromEnv(res) == EnvRefresh

\* the refresh token refresh_tokens() sends when called without one
\* (auth.py 406-409)
RefreshTokenFromLoad(res) == res.tok.refresh_token

\* get_valid_token up to its return or up to the refresh request (auth.py 438-450)
GetValidTokenStart(c, dbOk) ==
    /\ pc[c] = "idle"
    /\ UNCHANGED <<now, confVars, diskVars, provVars, lastReq, store>>
    /\ LET res == StorageLoad(dbOk)
           path == GetValidTokenPath(tokens, res, now)
       IN
       /\ lastLoad' = [lastLoad EXCEPT ![c] = IF tokens # NoToken /\ ~IsExpired(tokens, now)
                                              THEN NoLoad ELSE LoadSeen(res)]
       /\ CASE path = "cached" ->
                 /\ ret' = [ret EXCEPT ![c] =
                              Outcome("get_valid_token", "ok", tokens, "cache", FALSE, -1,
                                      file, dbRow)]
                 /\ UNCHANGED <<tokens, pc, loc>>
            [] path = "raise" ->
                 /\ ret' = [ret EXCEPT ![c] =
                              Outcome("get_valid_token", res.src, NoToken, "none", FALSE,
                                      -1, file, dbRow)]
                 /\ UNCHANGED <<tokens, pc, loc>>
            [] path = "NotAuthenticated" ->
                 /\ ret' = [ret EXCEPT ![c] =
                              Outcome("get_valid_token", "NotAuthenticated", NoToken, "none",
                                      FALSE, -1, file, dbRow)]
                 /\ UNCHANGED <<tokens, pc, loc>>
            [] path = "refresh" ->
                 /\ pc' = [pc EXCEPT ![c] = "refresh_post"]
                 /\ loc' = [loc EXCEPT ![c] =
                              [rt |-> res.tok.refresh_token, caller |-> "get_valid_token",
                               src |-> res.src]]
                 /\ UNCHANGED <<tokens, ret>>
            [] OTHER ->
                 /\ tokens' = res.tok
                 /\ ret' = [ret EXCEPT ![c] =
                              Outcome("get_valid_token", "ok", res.tok, res.src, FALSE, -1,
                                      file, dbRow)]
                 /\ UNCHANGED <<pc, loc>>

\* refresh_tokens() without argument, up to the refresh request (auth.py 405-409)
RefreshTokensStart(c, dbOk) ==
    /\ pc[c] = "idle"
    /\ UNCHANGED <<now, confVars, diskVars, tokens, provVars, lastReq, store>>
    /\ lastLoad' = [lastLoad EXCEPT ![c] = LoadSeen(StorageLoad(dbOk))]
    /\ LET res == StorageLoad(dbOk) IN
       IF res.kind = "raise"
       THEN /\ ret' = [ret EXCEPT ![c] =
                         Outcome("refresh_tokens", res.src, NoToken, "none", FALSE, -1,
                                 file, dbRow)]
            /\ UNCHANGED <<pc, loc>>
       ELSE IF res.kind = "absent"
       THEN /\ ret' = [ret EXCEPT ![c] =
                         Outcome("refresh_tokens", "NoStoredCredentials", NoToken, "none",
                                 FALSE, -1, file, dbRow)]
            /\ UNCHANGED <<pc, loc>>
       ELSE /\ pc' = [pc EXCEPT ![c] = "refresh_post"]
            /\ loc' = [loc EXCEPT ![c] =
                         [rt |-> RefreshTokenFromLoad(res), caller |-> "refresh_tokens",
                          src |-> res.src]]
            /\ UNCHANGED ret

\* a refresh that forgets the cached token when the endpoint rejects it
CacheDroppedOnRejection(cache) == NoToken

\* self._tokens after raise_for_status has raised (auth.py 424): the
\* assignment at line 428 is not reached
CacheAfterRejection(cache) == cache

\* the refresh request and what follows it (auth.py 411-430, 452-453): the
\* endpoint answers 200 with a new pair and consumes the refresh token, or
\* answers an error status (always so for a refresh token it does not accept)
RefreshPost(c, serverOk, expiresIn, dbOk, lacks) ==
    /\ pc[c] = "refresh_post"
    /\ LET rt == loc[c].rt
           success == serverOk /\ ProviderAccepts(rt) /\ issued < MaxIssue
           resp == Lacking(TokenResponse(issued + 1, expiresIn, "bearer"), lacks)
           tok == FromTokenResponse(resp, now)
       IN
       /\ lastReq' = [grant |-> "refresh_token", refresh_token |-> rt,
                      stale |-> rt \in usedOK,
                      latest |-> rotated => rt = issued,
                      status |-> IF success THEN 200 ELSE 400,
                      lacks |-> IF success THEN lacks ELSE "none", by |-> c]
       /\ pc' = [pc EXCEPT ![c] = "idle"]
       /\ loc' = [loc EXCEPT ![c] = NoLocals]
       /\ UNCHANGED <<now, confVars, store, lastLoad>>
       /\ IF ~success
          THEN /\ ret' = [ret EXCEPT ![c] =
                            Outcome(loc[c].caller, "HTTPStatusError", NoToken, loc[c].src,
                                    loc[c].caller = "get_valid_token", rt, file, dbRow)]
               /\ tokens' = CacheAfterRejection(tokens)
               /\ UNCHANGED <<file, dbRow, issued, usedOK, rotated>>
          ELSE /\ issued' = issued + 1
               /\ usedOK' = usedOK \cup {rt}
               /\ rotated' = TRUE
               /\ IF ~ResponseParses(resp)
                  THEN /\ ret' = [ret EXCEPT ![c] =
                                    Outcome(loc[c].caller, "KeyError", NoToken, loc[c].src,
                                            loc[c].caller = "get_valid_token", rt,
                                            file, dbRow)]
                       /\ UNCHANGED <<file, dbRow, tokens>>
                  ELSE /\ StorageSave(tok, dbOk)
                       /\ IF SaveRaises(dbOk)
                          THEN /\ ret' = [ret EXCEPT ![c] =
                                            Outcome(loc[c].caller, "PersistenceError", NoToken,
                                                    loc[c].src, loc[c].caller = "get_valid_token",
                                                    rt, file', dbRow')]
                               /\ UNCHANGED tokens
                          ELSE /\ tokens' = tok
                               /\ ret' = [ret EXCEPT ![c] =
                                            Outcome(loc[c].caller, "ok", tok, loc[c].src,
                                                    loc[c].caller = "get_valid_token", rt,
                                                    file', dbRow')]

\* exchange_code (auth.py 375-394)
ExchangeCode(c, serverOk, expiresIn, dbOk, lacks) ==
    /\ pc[c] = "idle"
    /\ LET success == serverOk /\ issued < MaxIssue
           resp == Lacking(TokenResponse(issued + 1, expiresIn, "bearer"), lacks)
           tok == FromTokenResponse(resp, now)
       IN
       /\ lastReq' = [grant |-> "authorization_code", refresh_token |-> -1,
                      stale |-> FALSE, latest |-> TRUE,
                      status |-> IF success THEN 200 ELSE 400,
                      lacks |-> IF success THEN lacks ELSE "none", by |-> c]
       /\ lastLoad' = [lastLoad EXCEPT ![c] = NoLoad]
       /\ UNCHANGED <<now, confVars, usedOK, pc, loc, store>>
       /\ IF ~success
          THEN /\ ret' = [ret EXCEPT ![c] =
                            Outcome("exchange_code", "HTTPStatusError", NoToken, "none",
                                    FALSE, -1, file, dbRow)]
               /\ UNCHANGED <<file, dbRow, tokens, issued, rotated>>
          ELSE /\ issued' = issued + 1
               /\ rotated' = TRUE
               /\ IF ~ResponseParses(resp)
                  THEN /\ ret' = [ret EXCEPT ![c] =
                                    Outcome("exchange_code", "KeyError", NoToken, "none",
                                            FALSE, -1, file, dbRow)]
                       /\ UNCHANGED <<file, dbRow, tokens>>
                  ELSE /\ StorageSave(tok, dbOk)
                       /\ IF SaveRaises(dbOk)
                          THEN /\ ret' = [ret EXCEPT ![c] =
                                            Outcome("exchange_code", "PersistenceError", NoToken,
                                                    "none", FALSE, -1, file', dbRow')]
                               /\ UNCHANGED tokens
                          ELSE /\ tokens' = tok
                               /\ ret' = [ret EXCEPT ![c] =
                                            Outcome("exchange_code", "ok", tok, "none", FALSE, -1,
                                                    file', dbRow')]

\* time passes
Tick ==
    /\ now < MaxTicks * TickSeconds
    /\ now' = now + TickSeconds
    /\ UNCHANGED <<confVars, diskVars, tokens, provVars, callVars, lastReq, store>>

----------------------------------------------------------------------------
(* WhoopAuth.authorize_interactive and OAuthCallbackHandler.               *)
(* The caller runs get_authorization_url, resets the handler's class       *)
(* fields, starts the server thread and joins it for at most 300 seconds;  *)
(* the server thread handles one request.  do_GET writes the code and the  *)
(* state in two assignments, so the caller may read between them.          *)

\* authorize_interactive calls a behaviour may start
MaxAttempts == 2

\* auth.py:493 server_thread.join(timeout=300)
JoinTimeoutSeconds == 300

\* query parameters of a callback request as parse_qs returns them; -1:
\* parameter absent (parse_qs drops a parameter with a blank value).  A state
\* parameter is a nonce generated so far (1..n) or another string (0)
Requests(n) ==
    [error : {-1, 1}, code : {-1, 7}, state : {-1} \cup 0..n]

NoRequestYet == [error |-> -1, code |-> -1, state |-> -1, status |-> 0]

\* outcome of a completed authorize_interactive: the error raised or "ok",
\* whether exchange_code was called, whether the call changed the store, the
\* cache or the token endpoint's view, the attempt's nonce, the request its
\* listener had received, whether its socket was open at return, whether the
\* call had created a listener, whether it had reached join, the error field
\* it read, and the seconds between start and return
NoAttempt == [attempt |-> 0, outcome |-> "none", exchanged |-> FALSE, touched |-> FALSE,
              nonce |-> -1, req |-> NoRequestYet, socketOpen |-> FALSE,
              listener |-> FALSE, waited |-> FALSE, reason |-> -1, elapsed |-> 0]

AiInit ==
    /\ aiPc = "idle"
    /\ attempts = 0
    /\ nonce = -1
    /\ aiStart = 0
    /\ socketOpen = FALSE
    /\ hCode = -1
    /\ hState = -1
    /\ hError = -1
    /\ hPc = [a \in 1..(MaxAttempts + 1) |-> "none"]
    /\ hReq = [a \in 1..(MaxAttempts + 1) |-> NoRequestYet]
    /\ aiRet = NoAttempt

\* authorize_interactive up to server_thread.join (auth.py 473-493); the
\* nonce of the n-th attempt is n (secrets.token_urlsafe: never repeated).
\* HTTPServer((host, port)) raises OSError while a listener of an earlier
\* call still holds the port; an exception of webbrowser.open leaves the
\* function with the server thread listening and the socket open, no
\* server_close being on that path.  A call starts only while the clock can
\* still reach its timeout.
AuthorizeStart(browserOk) ==
    /\ aiPc = "idle"
    /\ pc[1] = "idle"
    /\ attempts < MaxAttempts
    /\ now + JoinTimeoutSeconds <= MaxTicks * TickSeconds
    /\ attempts' = attempts + 1
    /\ nonce' = attempts + 1
    /\ hCode' = -1
    /\ hState' = -1
    /\ hError' = -1
    /\ aiStart' = now
    /\ UNCHANGED hReq
    /\ IF socketOpen
       THEN /\ aiPc' = "idle"
            /\ UNCHANGED <<socketOpen, hPc>>
            /\ aiRet' = [NoAttempt EXCEPT !.attempt = attempts + 1,
                                          !.outcome = "AddressInUse",
                                          !.nonce = attempts + 1,
                                          !.socketOpen = FALSE]
       ELSE /\ socketOpen' = TRUE
            /\ hPc' = [hPc EXCEPT ![attempts + 1] = "listening"]
            /\ IF browserOk
               THEN /\ aiPc' = "joining"
                    /\ UNCHANGED aiRet
               ELSE /\ aiPc' = "idle"
                    /\ aiRet' = [NoAttempt EXCEPT !.attempt = attempts + 1,
                                                  !.outcome = "BrowserError",
                                                  !.nonce = attempts + 1,
                                                  !.socketOpen = TRUE,
                                                  !.listener = TRUE]

\* a do_GET that answers 200 only to a request with a code
CallbackStatusCodeOnly(req) == IF req.code # -1 THEN 200 ELSE 400

\* the response status of do_GET
CallbackStatus(req) == IF req.error # -1 \/ req.code # -1 THEN 200 ELSE 400

\* a do_GET that looks for the code before the error
HandlerBranchCodeFirst(req) ==
    IF req.code # -1 THEN "code"
    ELSE IF req.error # -1 THEN "error"
    ELSE "invalid"

\* the branch do_GET takes (auth.py 288-296)
HandlerBranch(req) ==
    IF req.error # -1 THEN "error"
    ELSE IF req.code # -1 THEN "code"
    ELSE "invalid"

\* a server thread that goes on serving after its first request
ListenerAcceptsAgain(p) == p \in {"listening", "finished"}

\* whether the server thread takes a request: handle_request (auth.py 483)
\* serves one request and returns
ListenerAccepts(p) == p = "listening"

\* what do_GET of attempt a's server thread does with a request up to and
\* including its first assignment (auth.py 285-292, 296)
DoGet(a, req) ==
    /\ hReq' = [hReq EXCEPT ![a] = [error |-> req.error, code |-> req.code,
                                     state |-> req.state, status |-> CallbackStatus(req)]]
    /\ LET branch == HandlerBranch(req) IN
       IF branch = "error"
       THEN /\ hError' = req.error
            /\ hPc' = [hPc EXCEPT ![a] = "finished"]
            /\ UNCHANGED <<hCode, hState>>
       ELSE IF branch = "code"
       THEN /\ hCode' = req.code
            /\ hPc' = [hPc EXCEPT ![a] = "code_written"]
            /\ UNCHANGED <<hError, hState>>
       ELSE /\ hPc' = [hPc EXCEPT ![a] = "finished"]
            /\ UNCHANGED <<hCode, hState, hError>>

\* the server thread of attempt a takes a request (auth.py 483)
HandleRequest(a, req) ==
    /\ ListenerAccepts(hPc[a])
    /\ socketOpen
    /\ DoGet(a, req)
    /\ UNCHANGED <<aiPc, attempts, nonce, aiStart, socketOpen, aiRet>>

\* the second assignment of do_GET's code branch (auth.py 293-294); a thread
\* that ends after its attempt has returned leaves nothing behind
HandlerWriteState(a) ==
    /\ hPc[a] = "code_written"
    /\ hState' = hReq[a].state
    /\ LET joined == a = attempts /\ aiPc = "joining" IN
       /\ hPc' = [hPc EXCEPT ![a] = IF joined THEN "finished" ELSE "none"]
       /\ hReq' = [hReq EXCEPT ![a] = IF joined THEN @ ELSE NoRequestYet]
    /\ UNCHANGED <<aiPc, attempts, nonce, aiStart, socketOpen, hCode, hError, aiRet>>

\* the server object of a call that raised before server_close is garbage
\* once its thread has ended; the interpreter then closes its socket
ListenerCollected ==
    /\ aiPc = "idle"
    /\ socketOpen
    /\ \A a \in 1..MaxAttempts : hPc[a] \notin {"listening", "code_written"}
    /\ socketOpen' = FALSE
    /\ hPc' = [a \in 1..(MaxAttempts + 1) |-> "none"]
    /\ hReq' = [a \in 1..(MaxAttempts + 1) |-> NoRequestYet]
    /\ UNCHANGED <<aiPc, attempts, nonce, aiStart, hCode, hState, hError, aiRet>>

\* a join without timeout
JoinReturnsNoTimeout(p, t, start) == p = "finished"

\* server_thread.join(timeout=300) returns (auth.py 493): the thread has
\* ended or 300 seconds have passed since the call
JoinReturns(p, t, start) == p = "finished" \/ t >= start + JoinTimeoutSeconds

\* a decision that omits the comparison of the state with the nonce
AuthorizeDecisionNoStateCheck(err, code, state, expected) ==
    IF err # -1 THEN "AuthorizationDenied"
    ELSE IF code = -1 THEN "AuthorizationTimeout"
    ELSE "exchange"

\* what authorize_interactive does with the handler's fields (auth.py 496-506)
AuthorizeDecision(err, code, state, expected) ==
    IF err # -1 THEN "AuthorizationDenied"
    ELSE IF code = -1 THEN "AuthorizationTimeout"
    ELSE IF state # expected THEN "StateMismatch"
    ELSE "exchange"

\* authorize_interactive from the return of join to its own return
\* (auth.py 493-506): join returns when the server thread has ended or when
\* 300 seconds have passed; server_close ends a thread that still listens
AuthorizeFinish(serverOk, expiresIn, dbOk, lacks) ==
    /\ aiPc = "joining"
    /\ JoinReturns(hPc[attempts], now, aiStart)
    /\ socketOpen' = FALSE
    /\ hPc' = [hPc EXCEPT ![attempts] = IF @ = "code_written" THEN @ ELSE "none"]
    /\ hReq' = [hReq EXCEPT ![attempts] = IF hPc[attempts] = "code_written" THEN @
                                          ELSE NoRequestYet]
    /\ aiPc' = "idle"
    /\ UNCHANGED <<attempts, nonce, aiStart, hCode, hState, hError>>
    /\ LET decision == AuthorizeDecision(hError, hCode, hState, nonce) IN
       IF decision = "exchange"
       THEN /\ ExchangeCode(1, serverOk, expiresIn, dbOk, lacks)
            /\ aiRet' = [attempt |-> attempts, outcome |-> ret'[1].outcome,
                         exchanged |-> TRUE,
                         touched |-> <<file', dbRow', tokens', issued', lastReq'>>
                                        # <<file, dbRow, tokens, issued, lastReq>>,
                         nonce |-> nonce, req |-> hReq[attempts],
                         socketOpen |-> socketOpen',
                         listener |-> TRUE, waited |-> TRUE, reason |-> hError,
                         elapsed |-> now - aiStart]
       ELSE /\ UNCHANGED authVars
            /\ aiRet' = [attempt |-> attempts, outcome |-> decision,
                         exchanged |-> FALSE, touched |-> FALSE,
                         nonce |-> nonce, req |-> hReq[attempts],
                         socketOpen |-> socketOpen',
                         listener |-> TRUE, waited |-> TRUE, reason |-> hError,
                         elapsed |-> now - aiStart]

----------------------------------------------------------------------------
(* Two authorize_interactive calls made by two threads of one process on   *)
(* different ports.  Each has its own server, thread and nonce (call a has *)
(* nonce a); the handler's fields are attributes of the class and so the   *)
(* same for both.  The code sent to the listener of call a is 10 + a.      *)

\* the requests the listener of call a may get
OverlapRequests(a) == [error : {-1, 1}, code : {-1, 10 + a}, state : {-1, 0, 1, 2}]

NoOverlapOutcome == [outcome |-> "none", exchanged |-> -1, req |-> NoRequestYet]

OverlapInit ==
    /\ oPc = [a \in Callers |-> "idle"]
    /\ oStart = [a \in Callers |-> 0]
    /\ oRet = [a \in Callers |-> NoOverlapOutcome]

\* call a up to server_thread.join (auth.py 473-493): it resets the class
\* fields and starts its listener
OverlapStart(a) ==
    /\ oPc[a] = "idle"
    /\ now + JoinTimeoutSeconds <= MaxTicks * TickSeconds
    /\ hCode' = -1
    /\ hState' = -1
    /\ hError' = -1
    /\ hPc' = [hPc EXCEPT ![a] = "listening"]
    /\ oPc' = [oPc EXCEPT ![a] = "joining"]
    /\ oStart' = [oStart EXCEPT ![a] = now]
    /\ UNCHANGED <<hReq, oRet>>

\* the listener of call a takes a request
OverlapHandle(a, req) ==
    /\ ListenerAccepts(hPc[a])
    /\ DoGet(a, req)
    /\ UNCHANGED overlapVars

\* the second assignment of do_GET's code branch (auth.py 293-294)
OverlapWriteState(a) ==
    /\ hPc[a] = "code_written"
    /\ hState' = hReq[a].state
    /\ hPc' = [hPc EXCEPT ![a] = "finished"]
    /\ UNCHANGED <<hCode, hError, hReq, overlapVars>>

\* call a from the return of join to its own return (auth.py 493-506)
OverlapFinish(a, serverOk, dbOk) ==
    /\ oPc[a] = "joining"
    /\ JoinReturns(hPc[a], now, oStart[a])
    /\ hPc' = [hPc EXCEPT ![a] = IF @ = "listening" THEN "none" ELSE @]
    /\ oPc' = [oPc EXCEPT ![a] = "done"]
    /\ UNCHANGED <<hCode, hState, hError, hReq, oStart>>
    /\ LET decision == AuthorizeDecision(hError, hCode, hState, a) IN
       IF decision = "exchange"
       THEN /\ ExchangeCode(a, serverOk, -1, dbOk, "none")
            /\ oRet' = [oRet EXCEPT ![a] = [outcome |-> ret'[a].outcome,
                                            exchanged |-> hCode, req |-> hReq[a]]]
       ELSE /\ UNCHANGED authVars
            /\ oRet' = [oRet EXCEPT ![a] = [outcome |-> decision, exchanged |-> -1,
                                            req |-> hReq[a]]]

----------------------------------------------------------------------------
(* WhoopAPIClient._get_paginated against an endpoint that serves a fixed   *)
(* chain of pages: the request without nextToken gets page 1, the request  *)
(* with cursor i gets page i + 1.  Record j of page i is <<i, j>>.         *)

\* pages carrying a next_token that an endpoint may have
MaxPages == 2
\* records a page may hold
MaxPageRecords == 2

PageRecords(i, n) == [j \in 1..n |-> <<i, j>>]

\* the endpoints with k cursor pages followed by a page whose next_token is
\* absent (-1) or empty (0), or is a cursor the endpoint has handed out
\* before (it then never serves a page without cursor); counts[i] is the
\* number of records of page i
Endpoints ==
    UNION {{[i \in 1..(k + 1) |->
                [records |-> PageRecords(i, counts[i]),
                 next_token |-> IF i <= k THEN i ELSE last]] :
              counts \in [1..(k + 1) -> 0..MaxPageRecords], last \in {-1, 0} \cup 1..k} :
           k \in 0..MaxPages}

\* an endpoint every page of which carries a next_token
NeverEnds(pages) == \A i \in 1..Len(pages) : pages[i].next_token > 0

PageInit ==
    /\ pgPc = "idle"
    /\ pgPages = <<>>
    /\ allRecords = <<>>
    /\ nextToken = -1
    /\ pgSent = <<>>

\* `if next_token:` / `if not next_token:` (None and "" are false)
Truthy(tok) == tok > 0

\* the nextToken query parameter of the next request (api_client.py 88-89)
PageParam(tok) == IF Truthy(tok) THEN tok ELSE -1

\* the page the endpoint serves for a nextToken parameter
ServedPage(pages, param) == pages[IF param = -1 THEN 1 ELSE param + 1]

\* a loop that keeps only the last page's records
KeepLastPage(all, recs) == recs

\* all_records.extend(records) (api_client.py 92-93)
ExtendRecords(all, recs) == all \o recs

\* a loop that goes on after an empty next_token
LoopEndsOnAbsentOnly(tok) == tok = -1

\* `break` is taken (api_client.py 96-97)
LoopEnds(tok) == ~Truthy(tok)

\* _get_paginated is called (api_client.py 80-81)
PaginatedStart(pages) ==
    /\ pgPc = "idle"
    /\ pgPc' = "loop"
    /\ pgPages' = pages
    /\ allRecords' = <<>>
    /\ nextToken' = -1
    /\ pgSent' = <<>>

\* one iteration of the loop (api_client.py 83-97); ok = FALSE: _get raises
\* (get_valid_token fails, or raise_for_status on the response).  The loop
\* has no page limit; the model follows it for MaxPages + 2 requests
PaginatedRequest(ok) ==
    /\ pgPc = "loop"
    /\ Len(pgSent) < MaxPages + 2
    /\ LET param == PageParam(nextToken)
           data == ServedPage(pgPages, param)
       IN
       /\ pgSent' = Append(pgSent, param)
       /\ IF ok
          THEN /\ allRecords' = ExtendRecords(allRecords, data.records)
               /\ nextToken' = data.next_token
               /\ pgPc' = IF LoopEnds(data.next_token) THEN "returned" ELSE "loop"
          ELSE /\ pgPc' = "raised"
               /\ UNCHANGED <<allRecords, nextToken>>
    /\ UNCHANGED pgPages

----------------------------------------------------------------------------
(* db/operations.py upsert_cycles on the table whoop_cycle of db/schema.py *)
(* A table is a set of rows.  The records of a call are drawn one by one   *)
(* as the loop reaches them.  Decimal values are thousandths; -1 is None   *)
(* or NULL.                                                                *)

\* records one upsert_cycles call may carry
MaxBatch == 2

\* upsert_cycles calls in one behaviour
MaxCalls == 2

\* a column DECIMAL(p, 2) keeps two decimals, rounding half away from zero
Decimal2(x) == IF x = -1 THEN -1 ELSE ((x + 5) \div 10) * 10

NoScore == [none |-> TRUE]

\* a cycle record of the API: v selects user_id, start and timezone_offset
\* (v = 0: the record has no start); w selects end and score (w = 0: score is
\* null)
CycleRecord(i, v, w) ==
    [id |-> i,
     user_id |-> 400 + v,
     start |-> IF v = 0 THEN -1 ELSE 100 + v,
     end |-> 200 + w,
     timezone_offset |-> 300 + v,
     score |-> IF w = 0 THEN NoScore
               ELSE [strain |-> 5290 + 4 * w, kilojoule |-> 8000120 + 7 * w,
                     average_heart_rate |-> 60 + w, max_heart_rate |-> 150 + w]]

\* the records the API may return: every variant of cycle 1, and cycle 2
CyclePayloads ==
    {CycleRecord(1, v, w) : v \in 0..2, w \in 0..2} \cup {CycleRecord(2, 1, 1)}

\* `score = record.get("score", {}) or {}` and the score.get(...) calls
ScoreGet(record, key) ==
    IF record.score = NoScore THEN -1
    ELSE CASE key = "strain" -> record.score.strain
           [] key = "kilojoule" -> record.score.kilojoule
           [] key = "average_heart_rate" -> record.score.average_heart_rate
           [] OTHER -> record.score.max_heart_rate

\* the row the INSERT proposes at instant t (operations.py 80-86, 95-105;
\* created_at is the column default NOW())
ProposedRow(record, t) ==
    [id |-> record.id, user_id |-> record.user_id, start_time |-> record.start,
     end_time |-> record.end, timezone_offset |-> record.timezone_offset,
     score_strain |-> Decimal2(ScoreGet(record, "strain")),
     score_kilojoule |-> Decimal2(ScoreGet(record, "kilojoule")),
     score_average_heart_rate |-> ScoreGet(record, "average_heart_rate"),
     score_max_heart_rate |-> ScoreGet(record, "max_heart_rate"),
     created_at |-> t, updated_at |-> t]

\* ON CONFLICT (id) DO UPDATE SET ... (operations.py 87-93)
ConflictUpdate(old, new) ==
    [old EXCEPT !.end_time = new.end_time,
                !.score_strain = new.score_strain,
                !.score_kilojoule = new.score_kilojoule,
                !.score_average_heart_rate = new.score_average_heart_rate,
                !.score_max_heart_rate = new.score_max_heart_rate,
                !.updated_at = new.updated_at]

\* the statement violates a constraint of the proposed row (start_time NOT NULL)
StatementFails(record) == record.start = -1

\* an upsert that inserts without looking for the id
InsertOnly(rows, record, t) == rows \cup {ProposedRow(record, t)}

\* the table after the statement for one record
UpsertRow(rows, record, t) ==
    LET new == ProposedRow(record, t)
        hit == {r \in rows : r.id = record.id}
    IN (rows \ hit) \cup (IF hit = {} THEN {new} ELSE {ConflictUpdate(r, new) : r \in hit})

NoStatement == [payload |-> NoScore, existed |-> FALSE]

UpsertInit ==
    /\ cycleRows = {}
    /\ cycleDurable = {}
    /\ upTx = "idle"
    /\ upPc = "idle"
    /\ upCount = 0
    /\ upCalls = 0
    /\ upRet = [result |-> "none", count |-> 0, fn |-> "none"]
    /\ upLast = NoStatement

\* an upsert that commits before it looks at its list
EmptyCallCommits(tx) == "idle"

\* the connection's transaction after an upsert of an empty list: `if not
\* records: return 0` comes before the cursor and the commit
EmptyCallTx(tx) == tx

\* upsert_cycles is called: with an empty list it returns 0 at once
\* (operations.py 72-73), otherwise it enters the loop
UpsertCyclesCall(empty) ==
    /\ upPc = "idle"
    /\ upCalls < MaxCalls
    /\ upCalls' = upCalls + 1
    /\ upCount' = 0
    /\ IF empty
       THEN /\ upRet' = [result |-> "ok", count |-> 0, fn |-> "cycle"]
            /\ upTx' = EmptyCallTx(upTx)
            /\ UNCHANGED upPc
       ELSE /\ upPc' = "loop"
            /\ UNCHANGED <<upRet, upTx>>
    /\ UNCHANGED <<cycleRows, cycleDurable, upLast>>

\* upsert_recovery, upsert_sleep or upsert_workouts is called with an empty
\* list on the same connection (operations.py 121-122, 172-173, 268-269)
UpsertEmptyCall(k) ==
    /\ upPc = "idle"
    /\ upCalls < MaxCalls
    /\ upCalls' = upCalls + 1
    /\ upCount' = 0
    /\ upRet' = [result |-> "ok", count |-> 0, fn |-> k]
    /\ upTx' = EmptyCallTx(upTx)
    /\ UNCHANGED <<cycleRows, cycleDurable, upPc, upLast>>

\* cur.execute for the next record (operations.py 76-106).  In a failed
\* transaction every statement is refused; a statement that violates a
\* constraint fails the transaction; either way upsert_cycles raises
UpsertCyclesExecute(record) ==
    /\ upPc = "loop"
    /\ upCount < MaxBatch
    /\ IF upTx = "inerror" \/ StatementFails(record)
       THEN /\ upTx' = "inerror"
            /\ upPc' = "idle"
            /\ upRet' = [result |-> "raise", count |-> upCount, fn |-> "cycle"]
            /\ UNCHANGED <<cycleRows, upCount, upCalls, upLast>>
       ELSE /\ upTx' = "intrans"
            /\ cycleRows' = UpsertRow(cycleRows, record, now)
            /\ upCount' = upCount + 1
            /\ upLast' = [payload |-> record,
                          existed |-> \E r \in cycleRows : r.id = record.id]
            /\ UNCHANGED <<upPc, upRet>>
    /\ UNCHANGED <<cycleDurable, upCalls>>

\* the list is exhausted: conn.commit() and return len(records)
\* (operations.py 107-109)
UpsertCyclesCommit ==
    /\ upPc = "loop"
    /\ upCount > 0
    /\ upPc' = "idle"
    /\ upTx' = "idle"
    /\ cycleDurable' = cycleRows
    /\ upRet' = [result |-> "ok", count |-> upCount, fn |-> "cycle"]
    /\ UNCHANGED <<cycleRows, upCount, upCalls, upLast>>

\* the caller rolls the failed transaction back (leaving `with
\* psycopg.connect(...)`, scraper.py 61, ends it)
UpsertRollback ==
    /\ upPc = "idle"
    /\ upTx = "inerror"
    /\ upTx' = "idle"
    /\ cycleRows' = cycleDurable
    /\ upLast' = NoStatement
    /\ UNCHANGED <<cycleDurable, upPc, upCount, upRet, upCalls>>

----------------------------------------------------------------------------
(* scraper.py scrape_all and __init__.py cmd_scrape.  A category's fetch   *)
(* and upsert are summarised by their outcome; what is kept of the         *)
(* database is the connection's transaction state and which categories     *)
(* were committed.                                                         *)

\* records a paginated fetch may return
MaxRecords == 2

\* a scrape_all that takes the time series before the user's data
CategoriesSeriesFirst ==
    <<"cycles", "recovery", "sleep", "workouts", "user_profile", "body_measurement">>

\* the categories in the order scrape_all visits them (scraper.py 63-70)
Categories ==
    <<"user_profile", "body_measurement", "cycles", "recovery", "sleep", "workouts">>

CategorySet == {Categories[i] : i \in 1..Len(Categories)}

\* get_cycles, get_recovery, get_sleep and get_workouts return lists
ReturnsList(c) == c \notin {"user_profile", "body_measurement"}

\* how a fetch may end: a payload, or an HTTP error, a failure to obtain a
\* token, or a body that does not parse
FetchOutcomes == {"ok", "http_error", "auth_error", "parse_error"}

\* what may go wrong in an upsert: nothing, a statement the server rejects,
\* or an exception raised before the statement is sent
UpsertFaults == {"none", "db_error", "client_error"}

NoEntry == [present |-> FALSE, success |-> FALSE, records |-> -1, error |-> ""]

NoLog == [attempted |-> FALSE, fetched |-> FALSE, upserted |-> FALSE]

\* an ops.upsert_* call on n records when the transaction is in state tx: a
\* list upsert of nothing returns 0 at once; a failed transaction refuses
\* the first statement; a fault at the failAt-th record raises after the
\* records before it were executed; otherwise every record is executed and
\* the transaction committed
UpsertCall(c, tx, n, fault, failAt) ==
    IF ReturnsList(c) /\ n = 0
    THEN [raised |-> FALSE, error |-> "", tx |-> tx, count |-> 0, committed |-> FALSE]
    ELSE IF fault = "client_error"
    THEN IF failAt > 1 /\ tx = "inerror"
         THEN [raised |-> TRUE, error |-> "InFailedSqlTransaction", tx |-> "inerror",
               count |-> 0, committed |-> FALSE]
         ELSE [raised |-> TRUE, error |-> "client_error",
               tx |-> IF failAt > 1 THEN "intrans" ELSE tx,
               count |-> 0, committed |-> FALSE]
    ELSE IF tx = "inerror"
    THEN [raised |-> TRUE, error |-> "InFailedSqlTransaction", tx |-> "inerror",
          count |-> 0, committed |-> FALSE]
    ELSE IF fault = "db_error"
    THEN [raised |-> TRUE, error |-> "db_error", tx |-> "inerror",
          count |-> 0, committed |-> FALSE]
    ELSE [raised |-> FALSE, error |-> "", tx |-> "idle", count |-> n, committed |-> TRUE]

\* what conn.commit() at the end of category c's upsert makes durable
\* (operations.py 107): the transaction is the connection's, so the rows of
\* c and the rows earlier calls left in it
CommitMakesDurable(c, pending) == {c} \cup pending

\* a _scrape_* method that catches only what the fetch raises
CategoryHandlerFetchOnly(c, fetch, up) ==
    IF fetch # "ok"
    THEN [propagates |-> FALSE,
          entry |-> [present |-> TRUE, success |-> FALSE, records |-> -1, error |-> fetch]]
    ELSE IF up.raised
    THEN [propagates |-> TRUE, entry |-> NoEntry]
    ELSE [propagates |-> FALSE,
          entry |-> [present |-> TRUE, success |-> TRUE,
                     records |-> IF ReturnsList(c) THEN up.count ELSE 1, error |-> ""]]

\* a _scrape_* method (scraper.py 75-139): `except Exception` records the
\* failure of the fetch or of the upsert and lets nothing through
CategoryHandler(c, fetch, up) ==
    IF fetch # "ok"
    THEN [propagates |-> FALSE,
          entry |-> [present |-> TRUE, success |-> FALSE, records |-> -1, error |-> fetch]]
    ELSE IF up.raised
    THEN [propagates |-> FALSE,
          entry |-> [present |-> TRUE, success |-> FALSE, records |-> -1, error |-> up.error]]
    ELSE [propagates |-> FALSE,
          entry |-> [present |-> TRUE, success |-> TRUE,
                     records |-> IF ReturnsList(c) THEN up.count ELSE 1, error |-> ""]]

\* cmd_scrape's return value (__init__.py 143-165): 0 once scrape_all has
\* returned, 1 when it raised
CmdScrapeStatus(result) == IF result = "returned" THEN 0 ELSE 1

ScrapeInit ==
    /\ scPc = "idle"
    /\ scIdx = 1
    /\ stats = [c \in CategorySet |-> NoEntry]
    /\ scTx = "idle"
    /\ scDurable = {}
    /\ scPending = {}
    /\ scLog = [c \in CategorySet |-> NoLog]
    /\ scResult = "none"
    /\ exitCode = -1

\* scrape_all opens its connection (scraper.py 61); a failure to connect
\* raises out of scrape_all
ScrapeConnect(connOk) ==
    /\ scPc = "idle"
    /\ IF connOk
       THEN /\ scPc' = "open"
            /\ UNCHANGED scResult
       ELSE /\ scPc' = "done"
            /\ scResult' = "raised"
    /\ UNCHANGED <<scIdx, stats, scTx, scDurable, scPending, scLog, exitCode>>

\* the next _scrape_* call (scraper.py 63-70)
ScrapeCategory(fetch, n, fault, failAt) ==
    /\ scPc = "open"
    /\ scIdx <= Len(Categories)
    /\ LET c == Categories[scIdx]
           up == UpsertCall(c, scTx, n, fault, failAt)
           h == CategoryHandler(c, fetch, up)
       IN /\ scLog' = [scLog EXCEPT ![c] = [attempted |-> TRUE, fetched |-> fetch = "ok",
                                            upserted |-> fetch = "ok" /\ ~up.raised]]
          /\ scTx' = IF fetch = "ok" THEN up.tx ELSE scTx
          /\ scDurable' = IF fetch = "ok" /\ up.committed
                          THEN scDurable \cup CommitMakesDurable(c, scPending)
                          ELSE scDurable
          /\ scPending' = IF fetch # "ok" THEN scPending
                          ELSE IF up.committed \/ up.tx = "inerror" THEN {}
                          ELSE IF up.raised /\ up.tx = "intrans" /\ failAt > 1
                          THEN scPending \cup {c}
                          ELSE scPending
          /\ IF h.propagates
             THEN /\ scPc' = "done"
                  /\ scResult' = "raised"
                  /\ UNCHANGED <<stats, scIdx>>
             ELSE /\ stats' = [stats EXCEPT ![c] = h.entry]
                  /\ scIdx' = scIdx + 1
                  /\ UNCHANGED <<scPc, scResult>>
    /\ UNCHANGED exitCode

\* the `with` block ends (scraper.py 61, 72-73): the connection commits,
\* which makes the rows of an open transaction durable and ends a failed
\* transaction by rolling it back, and closes; scrape_all returns self.stats
ScrapeExit ==
    /\ scPc = "open"
    /\ scIdx > Len(Categories)
    /\ scTx' = "idle"
    /\ scDurable' = IF scTx = "intrans" THEN scDurable \cup scPending ELSE scDurable
    /\ scPending' = {}
    /\ scPc' = "done"
    /\ scResult' = "returned"
    /\ UNCHANGED <<scIdx, stats, scLog, exitCode>>

\* cmd_scrape returns and main passes the value to sys.exit
\* (__init__.py 143-165, 239)
CmdScrapeReturn ==
    /\ scPc = "done"
    /\ exitCode = -1
    /\ exitCode' = CmdScrapeStatus(scResult)
    /\ UNCHANGED <<scPc, scIdx, stats, scTx, scDurable, scPending, scLog, scResult>>

----------------------------------------------------------------------------
(* WhoopAPIClient inside a scrape run: every fetch of a category is one    *)
(* _get, or one _get per page, and every _get calls get_valid_token on the *)
(* run's WhoopAuth (caller 1) before it sends its request.                 *)

NoGet == [bearer |-> -1, returned |-> -1, calls |-> 0, page |-> 0, category |-> "none"]

ClientInit ==
    /\ clPc = "idle"
    /\ clPage = 0
    /\ clCalls = 0
    /\ clGet = NoGet

\* a client that keeps the token of its first request for the later ones
BearerKept(previous, returned) == IF previous # -1 THEN previous ELSE returned

\* the token in the Authorization header (api_client.py 43-45): the one
\* get_valid_token has just returned
Bearer(previous, returned) == returned

\* _get reaches _get_headers, which calls get_valid_token up to its return
\* or to its refresh request (api_client.py 60, 43; auth.py 439-450)
ClientGetHeaders(dbOk) ==
    /\ scPc = "open"
    /\ scIdx <= Len(Categories)
    /\ clPc = "idle"
    /\ GetValidTokenStart(1, dbOk)
    /\ clPc' = "token"
    /\ clCalls' = clCalls + 1
    /\ UNCHANGED <<clPage, clGet>>

\* the refresh request of that get_valid_token call and what follows it
ClientRefresh(serverOk, expiresIn, dbOk, lacks) ==
    /\ clPc = "token"
    /\ RefreshPost(1, serverOk, expiresIn, dbOk, lacks)
    /\ UNCHANGED clientVars

\* get_valid_token has returned or raised.  If it raised, so does the fetch;
\* otherwise httpx.get is sent with the bearer token (api_client.py 60-62).
\* A page with a next_token sends _get_paginated round its loop
\* (api_client.py 91-97); otherwise the fetch ends, and the _scrape_* method
\* goes on with the upsert or records the failure
ClientSend(httpOk, more, n, fault, failAt) ==
    /\ clPc = "token"
    /\ pc[1] = "idle"
    /\ scPc = "open"
    /\ scIdx <= Len(Categories)
    /\ more => (ReturnsList(Categories[scIdx]) /\ clPage < MaxPages)
    /\ clPc' = "idle"
    /\ clCalls' = 0
    /\ UNCHANGED authVars
    /\ LET c == Categories[scIdx]
           tokenOk == ret[1].outcome = "ok"
       IN /\ clGet' = IF tokenOk
                       THEN [bearer |-> Bearer(clGet.bearer, ret[1].tok.access_token),
                             returned |-> ret[1].tok.access_token,
                             calls |-> clCalls, page |-> clPage + 1, category |-> c]
                       ELSE clGet
          /\ IF tokenOk /\ httpOk /\ more
             THEN /\ clPage' = clPage + 1
                  /\ UNCHANGED scrapeVars
             ELSE /\ clPage' = 0
                  /\ ScrapeCategory(IF ~tokenOk THEN "auth_error"
                                    ELSE IF ~httpOk THEN "http_error" ELSE "ok",
                                    n, fault, failAt)

----------------------------------------------------------------------------
(* db/operations.py upsert_cycles, upsert_recovery, upsert_sleep and       *)
(* upsert_workouts side by side: one table of one category, a row being    *)
(* its key, end_time, sleep_id, score columns and the two timestamps.      *)
(* Score columns carry the names of the payload keys.                      *)

TimeSeries == {"cycle", "recovery", "sleep", "workout"}

\* the score columns of each table and their SQL types (db/schema.py):
\* "int" INTEGER / BIGINT, "dec2" DECIMAL(p, 2), "dec3" DECIMAL(p, 3)
ScoreColumnTypes(k) ==
    CASE k = "cycle" ->
           [strain |-> "dec2", kilojoule |-> "dec2", average_heart_rate |-> "int",
            max_heart_rate |-> "int"]
      [] k = "recovery" ->
           [recovery_score |-> "int", resting_heart_rate |-> "int",
            hrv_rmssd_milli |-> "dec3", spo2_percentage |-> "dec2",
            skin_temp_celsius |-> "dec2"]
      [] k = "sleep" ->
           [total_in_bed_time_milli |-> "int", total_awake_time_milli |-> "int",
            total_no_data_time_milli |-> "int", total_light_sleep_time_milli |-> "int",
            total_slow_wave_sleep_time_milli |-> "int",
            total_rem_sleep_time_milli |-> "int", sleep_cycle_count |-> "int",
            disturbance_count |-> "int", baseline_milli |-> "int",
            need_from_sleep_debt_milli |-> "int",
            need_from_recent_strain_milli |-> "int",
            need_from_recent_nap_milli |-> "int", respiratory_rate |-> "dec2",
            sleep_performance_percentage |-> "dec2",
            sleep_consistency_percentage |-> "dec2",
            sleep_efficiency_percentage |-> "dec2"]
      [] OTHER ->
           [strain |-> "dec2", average_heart_rate |-> "int", max_heart_rate |-> "int",
            kilojoule |-> "dec2", percent_recorded |-> "dec2", distance_meter |-> "dec2",
            altitude_gain_meter |-> "dec2", altitude_change_meter |-> "dec2",
            zone_zero_milli |-> "int", zone_one_milli |-> "int", zone_two_milli |-> "int",
            zone_three_milli |-> "int", zone_four_milli |-> "int",
            zone_five_milli |-> "int"]

ScoreColumns(k) == DOMAIN ScoreColumnTypes(k)

\* the score columns in the SET list of ON CONFLICT ... DO UPDATE
\* (operations.py 89-92, 140-144, 213-220, 296-297)
UpdatedScoreColumns(k) ==
    CASE k = "cycle" -> {"strain", "kilojoule", "average_heart_rate", "max_heart_rate"}
      [] k = "recovery" -> {"recovery_score", "resting_heart_rate", "hrv_rmssd_milli",
                            "spo2_percentage", "skin_temp_celsius"}
      [] k = "sleep" -> {"total_in_bed_time_milli", "total_awake_time_milli",
                         "total_rem_sleep_time_milli", "sleep_performance_percentage"}
      [] OTHER -> {"strain", "kilojoule"}

\* whoop_recovery has no end_time and is alone in having a sleep_id
HasEndTime(k) == k # "recovery"

\* what a column of the given type stores of a value (decimals in thousandths)
ColumnStore(type, x) == IF type = "dec2" THEN Decimal2(x) ELSE x

\* a record of the API for category k: key i; w selects end, sleep_id and
\* the score (w = 0: score is null)
SeriesRecord(k, i, w) ==
    [key |-> i,
     end |-> IF HasEndTime(k) THEN 200 + w ELSE -1,
     sleep_id |-> IF HasEndTime(k) THEN -1 ELSE 500 + w,
     score |-> [c \in ScoreColumns(k) |->
                  IF w = 0 THEN -1
                  ELSE IF ScoreColumnTypes(k)[c] = "int" THEN 60 + w ELSE 5290 + 4 * w]]

SeriesPayloads(k) == {SeriesRecord(k, i, w) : i \in {1, 2}, w \in 0..2}

\* the row the INSERT proposes at instant t
SeriesProposedRow(k, record, t) ==
    [key |-> record.key, end_time |-> record.end, sleep_id |-> record.sleep_id,
     score |-> [c \in ScoreColumns(k) |-> ColumnStore(ScoreColumnTypes(k)[c], record.score[c])],
     created_at |-> t, updated_at |-> t]

\* ON CONFLICT ... DO UPDATE SET ...
SeriesConflictUpdate(k, old, new) ==
    [old EXCEPT !.end_time = new.end_time,
                !.sleep_id = new.sleep_id,
                !.score = [c \in ScoreColumns(k) |->
                             IF c \in UpdatedScoreColumns(k) THEN new.score[c] ELSE old.score[c]],
                !.updated_at = new.updated_at]

\* the table after the statement for one record
SeriesUpsertRow(k, rows, record, t) ==
    LET new == SeriesProposedRow(k, record, t)
        hit == {r \in rows : r.key = record.key}
    IN (rows \ hit)
       \cup (IF hit = {} THEN {new} ELSE {SeriesConflictUpdate(k, r, new) : r \in hit})

NoSeriesUpsert == [payload |-> NoScore, existed |-> FALSE, created_before |-> -1]

SeriesInit ==
    /\ tsKind \in TimeSeries
    /\ tsRows = {}
    /\ tsLast = NoSeriesUpsert

\* no time-series table is followed
SeriesQuiet ==
    /\ tsKind = "cycle"
    /\ tsRows = {}
    /\ tsLast = NoSeriesUpsert

\* upsert_<category>(conn, [record]): the statement and the commit
SeriesUpsert(record) ==
    /\ tsRows' = SeriesUpsertRow(tsKind, tsRows, record, now)
    /\ tsLast' = [payload |-> record,
                  existed |-> \E r \in tsRows : r.key = record.key,
                  created_before |-> IF \E r \in tsRows : r.key = record.key
                                     THEN (CHOOSE r \in tsRows : r.key = record.key).created_at
                                     ELSE -1]
    /\ UNCHANGED tsKind

----------------------------------------------------------------------------
(* OAuthTokens.is_expired called directly on tokens whose expires_at lies  *)
(* around the instants the clock takes plus the buffer.                    *)

\* seconds by which an expires_at may miss a boundary instant
MaxOffset == 3

\* tokens whose expires_at is within MaxOffset seconds of an instant the clock
\* can show plus five minutes
ExpiryTokens ==
    {Token(1, 1, k * TickSeconds + BufferSeconds + d, "bearer") :
        k \in 0..MaxTicks, d \in (0 - MaxOffset)..MaxOffset}

NoExpiryCall == [tok |-> NoToken, at |-> -1, value |-> FALSE]

ExpiryInit == expiry = NoExpiryCall

\* tok.is_expired() at the present instant
IsExpiredCall(tok) ==
    expiry' = [tok |-> tok, at |-> now, value |-> IsExpired(tok, now)]

----------------------------------------------------------------------------
(* Initial states *)

\* a token an earlier run left in the store: pair 1, expired or not yet
StoredBefore == {Token(1, 1, e, "bearer") : e \in {BufferSeconds, 3 * BufferSeconds}}

NoStoreOp == [op |-> "none", result |-> Absent, saved |-> NoToken, dbOk |-> TRUE]

AuthInit ==
    /\ now = 0
    /\ storageKind \in {"file", "db"}
    /\ envSet \in BOOLEAN
    /\ cipherOn \in (IF storageKind = "db" THEN BOOLEAN ELSE {FALSE})
    /\ \E held \in StoredBefore \cup {NoToken} :
         /\ file = IF storageKind = "file" /\ held # NoToken THEN FileSave(held) ELSE NoFile
         /\ dbRow = IF storageKind = "db" /\ held # NoToken
                    THEN RowSave(cipherOn, held) ELSE NoRow
         /\ issued = IF held = NoToken THEN 0 ELSE 1
    /\ tokens = NoToken
    /\ usedOK = {}
    /\ rotated = FALSE
    /\ pc = [c \in Callers |-> "idle"]
    /\ loc = [c \in Callers |-> NoLocals]
    /\ ret = [c \in Callers |-> NoOutcome]
    /\ lastLoad = [c \in Callers |-> NoLoad]
    /\ lastReq = NoRequest
    /\ store = NoStoreOp

InitAuth == AuthInit /\ AiInit /\ PageInit /\ UpsertInit /\ ScrapeInit /\ SeriesQuiet /\ ExpiryInit /\ ClientInit /\ ParseInit /\ OverlapInit

\* one caller at a time
NextAuth ==
    \/ \E dbOk \in BOOLEAN : GetValidTokenStart(1, dbOk) /\ UNCHANGED nonAuthVars
    \/ \E dbOk \in BOOLEAN : RefreshTokensStart(1, dbOk) /\ UNCHANGED nonAuthVars
    \/ \E serverOk, dbOk \in BOOLEAN, b \in BodyChoices :
          RefreshPost(1, serverOk, b.expires_in, dbOk, b.lacks) /\ UNCHANGED nonAuthVars
    \/ \E serverOk, dbOk \in BOOLEAN, b \in BodyChoices :
          ExchangeCode(1, serverOk, b.expires_in, dbOk, b.lacks) /\ UNCHANGED nonAuthVars
    \/ Tick /\ UNCHANGED nonAuthVars

SpecAuth == InitAuth /\ [][NextAuth]_vars

\* two callers sharing the instance
NextConc ==
    \/ \E c \in Callers, dbOk \in BOOLEAN :
          GetValidTokenStart(c, dbOk) /\ UNCHANGED nonAuthVars
    \/ \E c \in Callers, serverOk, dbOk \in BOOLEAN, e \in ExpiresInChoices :
          RefreshPost(c, serverOk, e, dbOk, "none") /\ UNCHANGED nonAuthVars
    \/ Tick /\ UNCHANGED nonAuthVars

SpecConc == InitAuth /\ [][NextConc]_vars

\* interactive authorization on a fresh instance
NextInteractive ==
    \/ \E browserOk \in BOOLEAN :
          AuthorizeStart(browserOk) /\ UNCHANGED <<authVars, pageVars, upsertVars, scrapeVars, tsVars, expiryVars, clientVars, parseVars, overlapVars>>
    \/ ListenerCollected /\ UNCHANGED <<authVars, pageVars, upsertVars, scrapeVars, tsVars, expiryVars, clientVars, parseVars, overlapVars>>
    \/ \E a \in 1..MaxAttempts, req \in Requests(attempts) :
          HandleRequest(a, req) /\ UNCHANGED <<authVars, pageVars, upsertVars, scrapeVars, tsVars, expiryVars, clientVars, parseVars, overlapVars>>
    \/ \E a \in 1..MaxAttempts : HandlerWriteState(a) /\ UNCHANGED <<authVars, pageVars, upsertVars, scrapeVars, tsVars, expiryVars, clientVars, parseVars, overlapVars>>
    \/ \E serverOk, dbOk \in BOOLEAN :
          /\ AuthorizeFinish(serverOk, -1, dbOk, "none")
          /\ UNCHANGED <<pageVars, upsertVars, scrapeVars, tsVars, expiryVars, clientVars, parseVars, overlapVars>>
    \/ Tick /\ UNCHANGED nonAuthVars

\* the instance of a first authorization: nothing stored yet
InitInteractive == InitAuth /\ file = NoFile /\ dbRow = NoRow /\ ~envSet

SpecInteractive == InitInteractive /\ [][NextInteractive]_vars

\* two interactive authorizations at once on a fresh instance
NextOverlap ==
    \/ \E a \in Callers :
          /\ OverlapStart(a)
          /\ UNCHANGED <<authVars, aiPc, attempts, nonce, aiStart, socketOpen, aiRet>>
          /\ UNCHANGED <<pageVars, upsertVars, scrapeVars, tsVars, expiryVars, clientVars, parseVars>>
    \/ \E a \in Callers : \E req \in OverlapRequests(a) :
          /\ OverlapHandle(a, req)
          /\ UNCHANGED <<authVars, aiPc, attempts, nonce, aiStart, socketOpen, aiRet>>
          /\ UNCHANGED <<pageVars, upsertVars, scrapeVars, tsVars, expiryVars, clientVars, parseVars>>
    \/ \E a \in Callers :
          /\ OverlapWriteState(a)
          /\ UNCHANGED <<authVars, aiPc, attempts, nonce, aiStart, socketOpen, aiRet>>
          /\ UNCHANGED <<pageVars, upsertVars, scrapeVars, tsVars, expiryVars, clientVars, parseVars>>
    \/ \E a \in Callers, serverOk, dbOk \in BOOLEAN :
          /\ OverlapFinish(a, serverOk, dbOk)
          /\ UNCHANGED <<aiPc, attempts, nonce, aiStart, socketOpen, aiRet>>
          /\ UNCHANGED <<pageVars, upsertVars, scrapeVars, tsVars, expiryVars, clientVars, parseVars>>
    \/ Tick /\ UNCHANGED nonAuthVars

SpecOverlap == InitInteractive /\ [][NextOverlap]_vars

\* the caller's thread runs on when join returns
AuthorizeReturns ==
    \E serverOk, dbOk \in BOOLEAN :
        /\ AuthorizeFinish(serverOk, -1, dbOk, "none")
        /\ UNCHANGED <<pageVars, upsertVars, scrapeVars, tsVars, expiryVars, clientVars, parseVars, overlapVars>>

\* interactive authorization where time passes and a caller whose join has
\* returned goes on
SpecInteractiveFair ==
    /\ InitInteractive
    /\ [][NextInteractive]_vars
    /\ WF_vars(Tick /\ UNCHANGED nonAuthVars)
    /\ WF_vars(AuthorizeReturns)

\* the authenticated side at rest: a database store without row
AuthQuiet ==
    AuthInit /\ storageKind = "db" /\ ~cipherOn /\ ~envSet /\ dbRow = NoRow

\* paginated fetches
InitPage == AuthQuiet /\ AiInit /\ PageInit /\ UpsertInit /\ ScrapeInit /\ SeriesQuiet /\ ExpiryInit /\ ClientInit /\ ParseInit /\ OverlapInit

NextPage ==
    \/ \E pages \in Endpoints : PaginatedStart(pages) /\ UNCHANGED <<authVars, aiVars, upsertVars, scrapeVars, tsVars, expiryVars, clientVars, parseVars, overlapVars>>
    \/ \E ok \in BOOLEAN : PaginatedRequest(ok) /\ UNCHANGED <<authVars, aiVars, upsertVars, scrapeVars, tsVars, expiryVars, clientVars, parseVars, overlapVars>>

SpecPage == InitPage /\ [][NextPage]_vars

\* upserts of cycle records
InitUpsert == AuthQuiet /\ AiInit /\ PageInit /\ UpsertInit /\ ScrapeInit /\ SeriesQuiet /\ ExpiryInit /\ ClientInit /\ ParseInit /\ OverlapInit

NextUpsert ==
    \/ \E empty \in BOOLEAN : UpsertCyclesCall(empty) /\ UNCHANGED <<authVars, aiVars, pageVars, scrapeVars, tsVars, expiryVars, clientVars, parseVars, overlapVars>>
    \/ \E k \in TimeSeries \ {"cycle"} :
          UpsertEmptyCall(k) /\ UNCHANGED <<authVars, aiVars, pageVars, scrapeVars, tsVars, expiryVars, clientVars, parseVars, overlapVars>>
    \/ \E record \in CyclePayloads :
          UpsertCyclesExecute(record) /\ UNCHANGED <<authVars, aiVars, pageVars, scrapeVars, tsVars, expiryVars, clientVars, parseVars, overlapVars>>
    \/ UpsertCyclesCommit /\ UNCHANGED <<authVars, aiVars, pageVars, scrapeVars, tsVars, expiryVars, clientVars, parseVars, overlapVars>>
    \/ UpsertRollback /\ UNCHANGED <<authVars, aiVars, pageVars, scrapeVars, tsVars, expiryVars, clientVars, parseVars, overlapVars>>
    \/ upTx = "idle" /\ Tick /\ UNCHANGED nonAuthVars

SpecUpsert == InitUpsert /\ [][NextUpsert]_vars

\* one run of the scrape command
InitScrape == AuthQuiet /\ AiInit /\ PageInit /\ UpsertInit /\ ScrapeInit /\ SeriesQuiet /\ ExpiryInit /\ ClientInit /\ ParseInit /\ OverlapInit

NextScrape ==
    \/ \E connOk \in BOOLEAN :
          ScrapeConnect(connOk) /\ UNCHANGED <<authVars, aiVars, pageVars, upsertVars, tsVars, expiryVars, clientVars, parseVars, overlapVars>>
    \/ \E fetch \in FetchOutcomes, n \in {0, 1, MaxRecords}, fault \in UpsertFaults,
          failAt \in 1..MaxRecords :
          /\ scIdx <= Len(Categories)
          /\ n = 1 <=> ~ReturnsList(Categories[scIdx])
          /\ failAt <= n \/ failAt = 1
          /\ ScrapeCategory(fetch, n, fault, failAt)
          /\ UNCHANGED <<authVars, aiVars, pageVars, upsertVars, tsVars, expiryVars, clientVars, parseVars, overlapVars>>
    \/ ScrapeExit /\ UNCHANGED <<authVars, aiVars, pageVars, upsertVars, tsVars, expiryVars, clientVars, parseVars, overlapVars>>
    \/ CmdScrapeReturn /\ UNCHANGED <<authVars, aiVars, pageVars, upsertVars, tsVars, expiryVars, clientVars, parseVars, overlapVars>>

SpecScrape == InitScrape /\ [][NextScrape]_vars

\* a scrape run with its requests: WhoopScraper uses the database store
\* (scraper.py 42-46), here with no encryption key set
InitRun == InitAuth /\ storageKind = "db" /\ ~cipherOn

NextRun ==
    \/ \E connOk \in BOOLEAN :
          ScrapeConnect(connOk) /\ UNCHANGED <<authVars, aiVars, pageVars, upsertVars, tsVars, expiryVars, clientVars, parseVars, overlapVars>>
    \/ /\ ClientGetHeaders(TRUE)
          /\ UNCHANGED <<aiVars, pageVars, upsertVars, scrapeVars, tsVars, expiryVars, parseVars, overlapVars>>
    \/ \E serverOk \in BOOLEAN, e \in {BufferSeconds, 3 * BufferSeconds} :
          /\ ClientRefresh(serverOk, e, TRUE, "none")
          /\ UNCHANGED <<aiVars, pageVars, upsertVars, scrapeVars, tsVars, expiryVars, parseVars, overlapVars>>
    \/ \E httpOk, more \in BOOLEAN :
          /\ ClientSend(httpOk, more, 1, "none", 1)
          /\ UNCHANGED <<aiVars, pageVars, upsertVars, tsVars, expiryVars, parseVars, overlapVars>>
    \/ ScrapeExit /\ UNCHANGED <<authVars, aiVars, pageVars, upsertVars, tsVars, expiryVars, clientVars, parseVars, overlapVars>>
    \/ Tick /\ clPc = "idle" /\ UNCHANGED nonAuthVars

SpecRun == InitRun /\ [][NextRun]_vars

\* records ingested again into the table of one time-series category
InitReingest ==
    AuthQuiet /\ AiInit /\ PageInit /\ UpsertInit /\ ScrapeInit /\ SeriesInit /\ ExpiryInit /\ ClientInit /\ ParseInit /\ OverlapInit

NextReingest ==
    \/ \E record \in SeriesPayloads(tsKind) :
          SeriesUpsert(record)
          /\ UNCHANGED <<authVars, aiVars, pageVars, upsertVars, scrapeVars, expiryVars, clientVars, parseVars, overlapVars>>
    \/ Tick /\ UNCHANGED nonAuthVars

SpecReingest == InitReingest /\ [][NextReingest]_vars

\* the expiry check on its own
InitExpiry ==
    AuthQuiet /\ AiInit /\ PageInit /\ UpsertInit /\ ScrapeInit /\ SeriesQuiet /\ ExpiryInit /\ ClientInit /\ ParseInit /\ OverlapInit

NextExpiry ==
    \/ \E tok \in ExpiryTokens :
          IsExpiredCall(tok)
          /\ UNCHANGED <<authVars, aiVars, pageVars, upsertVars, scrapeVars, tsVars, clientVars, parseVars, overlapVars>>
    \/ Tick /\ UNCHANGED nonAuthVars

SpecExpiry == InitExpiry /\ [][NextExpiry]_vars

\* the parse of a token response on its own
InitParse == InitExpiry

NextParse ==
    \/ \E resp \in ParseBodies :
          FromTokenResponseCall(resp)
          /\ UNCHANGED <<authVars, aiVars, pageVars, upsertVars, scrapeVars, tsVars, expiryVars, clientVars, overlapVars>>
    \/ Tick /\ UNCHANGED nonAuthVars

SpecParse == InitParse /\ [][NextParse]_vars

----------------------------------------------------------------------------
(* The store used on its own: save, load and clear called directly *)

\* tokens handed to save
SampleTokens ==
    {Token(a, a + 1, e, tt) : a \in {3, 5}, e \in {BufferSeconds, 3 * BufferSeconds},
                              tt \in {"bearer", "mac", ""}}

\* a row may have been written while the instance had another encryption
\* setting: DatabaseTokenStorage.__init__ takes the key from the settings
\* (scraper.py 42-45), and the key is optional

\* contents a token file may have before the first save
MalformedFiles ==
    {[content |-> [kind |-> k, dict |-> ToDict(Token(1, 1, BufferSeconds, "bearer"))],
      mode |-> "0644"] : k \in {"invalid_json", "missing_key", "not_object", "bad_iso"}}

\* store.save(tok); store.saved remembers the token of the last completed
\* save as long as no clear followed it
StoreSave(tok, dbOk) ==
    /\ StorageSave(tok, dbOk)
    /\ store' = [op |-> "save",
                 result |-> IF SaveRaises(dbOk) THEN LoadRaised("PersistenceError") ELSE Absent,
                 saved |-> IF SaveRaises(dbOk) THEN store.saved ELSE tok,
                 dbOk |-> storageKind = "file" \/ dbOk]
    /\ UNCHANGED <<now, confVars, tokens, provVars, callVars, lastReq>>

\* store.load()
StoreLoad(dbOk) ==
    /\ store' = [op |-> "load", result |-> StorageLoad(dbOk), saved |-> store.saved,
                 dbOk |-> storageKind = "file" \/ dbOk]
    /\ UNCHANGED <<now, confVars, diskVars, tokens, provVars, callVars, lastReq>>

\* store.clear()
StoreClear(dbOk) ==
    /\ StorageClear(dbOk)
    /\ store' = [op |-> "clear",
                 result |-> IF SaveRaises(dbOk) THEN LoadRaised("PersistenceError") ELSE Absent,
                 saved |-> IF SaveRaises(dbOk) THEN store.saved ELSE NoToken,
                 dbOk |-> storageKind = "file" \/ dbOk]
    /\ UNCHANGED <<now, confVars, tokens, provVars, callVars, lastReq>>

StoreInit ==
    /\ now = 0
    /\ storageKind \in {"file", "db"}
    /\ envSet \in BOOLEAN
    /\ cipherOn \in (IF storageKind = "db" THEN BOOLEAN ELSE {FALSE})
    /\ file \in (IF storageKind = "file"
                 THEN {NoFile} \cup {FileSave(t) : t \in StoredBefore} \cup MalformedFiles
                 ELSE {NoFile})
    /\ dbRow \in (IF storageKind = "db"
                  THEN {NoRow} \cup {RowSave(c, t) : c \in BOOLEAN, t \in StoredBefore}
                  ELSE {NoRow})
    /\ issued = 1
    /\ tokens = NoToken
    /\ usedOK = {}
    /\ rotated = FALSE
    /\ pc = [c \in Callers |-> "idle"]
    /\ loc = [c \in Callers |-> NoLocals]
    /\ ret = [c \in Callers |-> NoOutcome]
    /\ lastLoad = [c \in Callers |-> NoLoad]
    /\ lastReq = NoRequest
    /\ store = NoStoreOp

InitStore == StoreInit /\ AiInit /\ PageInit /\ UpsertInit /\ ScrapeInit /\ SeriesQuiet /\ ExpiryInit /\ ClientInit /\ ParseInit /\ OverlapInit

NextStore ==
    \/ \E tok \in SampleTokens, dbOk \in BOOLEAN : StoreSave(tok, dbOk) /\ UNCHANGED nonAuthVars
    \/ \E dbOk \in BOOLEAN : StoreLoad(dbOk) /\ UNCHANGED nonAuthVars
    \/ \E dbOk \in BOOLEAN : StoreClear(dbOk) /\ UNCHANGED nonAuthVars
    \/ Tick /\ UNCHANGED nonAuthVars

SpecStore == InitStore /\ [][NextStore]_vars

\* the store's operations next to the get_valid_token calls of an instance
\* that uses the store; the store starts empty or with a well-formed token
InitClear ==
    /\ InitStore
    /\ ~cipherOn
    /\ file \in {NoFile} \cup {FileSave(t) : t \in StoredBefore}
    /\ dbRow \in {NoRow} \cup {RowSave(FALSE, t) : t \in StoredBefore}

NextClear ==
    \/ \E e \in {BufferSeconds, 3 * BufferSeconds}, dbOk \in BOOLEAN :
          StoreSave(Token(3, 4, e, "bearer"), dbOk) /\ UNCHANGED nonAuthVars
    \/ \E dbOk \in BOOLEAN : StoreLoad(dbOk) /\ UNCHANGED nonAuthVars
    \/ \E dbOk \in BOOLEAN : StoreClear(dbOk) /\ UNCHANGED nonAuthVars
    \/ \E dbOk \in BOOLEAN : GetValidTokenStart(1, dbOk) /\ UNCHANGED nonAuthVars
    \/ \E serverOk \in BOOLEAN :
          RefreshPost(1, serverOk, 3 * BufferSeconds, TRUE, "none") /\ UNCHANGED nonAuthVars
    \/ Tick /\ UNCHANGED nonAuthVars

SpecClear == InitClear /\ [][NextClear]_vars

----------------------------------------------------------------------------
(* Claims about the token lifecycle *)

\* C1: a string returned by get_valid_token is the access token of a token
\* that is not expired at return time (now < expires_at - 5 min), and when
\* the token loaded from storage was expired a refresh request was made and
\* the refreshed token is in the store at return
C1_ReturnedTokenNotExpired ==
    \A c \in Callers :
        (ret[c].op = "get_valid_token" /\ ret[c].outcome = "ok")
            => /\ ~ret[c].expired
               /\ ret[c].loadedExpired => (ret[c].refreshed /\ ret[c].persisted)

\* the second half of C1 alone
C1_ExpiredLoadRefreshesAndPersists ==
    \A c \in Callers :
        (ret[c].op = "get_valid_token" /\ ret[c].outcome = "ok" /\ ret[c].loadedExpired)
            => (ret[c].refreshed /\ ret[c].persisted)

\* C3: no refresh request carries a refresh token that a successful refresh
\* has already consumed, and once a refresh or a code exchange has succeeded
\* every refresh request carries the refresh token of the latest pair issued
C3_RefreshTokenNeverReused ==
    lastReq.grant = "refresh_token" => (~lastReq.stale /\ lastReq.latest)

\* C4: the check-expiry / refresh / cache sequence of get_valid_token is
\* mutually exclusive: two callers are never both between the expiry check
\* and the refresh request, and no refresh token is sent a second time after
\* it has been consumed
C4_RefreshSerialized ==
    /\ \A c1, c2 \in Callers :
          (c1 # c2 /\ pc[c1] = "refresh_post" /\ pc[c2] = "refresh_post")
              => loc[c1].rt # loc[c2].rt
    /\ lastReq.grant = "refresh_token" => ~lastReq.stale

\* C6: a get_valid_token call whose load() returned the bootstrap token
\* (database store, no row, both environment tokens set) found it expired,
\* sent a refresh request with the bootstrap refresh token and, when it
\* returned an access token, the refreshed token was the database row
C6_BootstrapRefreshesAndPersists ==
    \A c \in Callers :
        (ret[c].op = "get_valid_token" /\ ret[c].src = "bootstrap")
            => /\ ret[c].loadedExpired
               /\ ret[c].rtSent = EnvRefresh
               /\ ret[c].outcome = "ok" => (storageKind = "db" /\ ret[c].persisted)

\* C5: load() after save(T) on the same store returns a token equal to T in
\* every field, for the file variant and for the database variant with and
\* without an encryption key
C5_SaveLoadRoundTrip ==
    (store.op = "load" /\ store.saved # NoToken)
        => (store.result.kind = "token" /\ store.result.tok = store.saved)

\* C5 as amended: the round trip holds for the file variant when the
\* environment tokens are not both set, and for the database variant (with or
\* without key) when the load's query does not fail and T.token_type is not
\* the empty string
C5_SaveLoadRoundTripAmended ==
    (/\ store.op = "load" /\ store.saved # NoToken
     /\ \/ storageKind = "file" /\ ~envSet
        \/ storageKind = "db" /\ store.dbOk /\ store.saved.token_type # "")
        => (store.result.kind = "token" /\ store.result.tok = store.saved)

\* an encrypted database store returned the token saved just before
C5_Witness ==
    /\ store.op = "load" /\ store.saved # NoToken
    /\ storageKind = "db" /\ cipherOn /\ store.dbOk
    /\ store.result.kind = "token" /\ store.result.tok = store.saved

\* get_valid_token on a database store without row returned the access token
\* of the pair it got for the bootstrap refresh token, and the row holds it
C6_Witness ==
    /\ storageKind = "db"
    /\ ret[1].op = "get_valid_token" /\ ret[1].src = "bootstrap"
    /\ ret[1].outcome = "ok" /\ ret[1].rtSent = EnvRefresh
    /\ dbRow = RowSave(cipherOn, ret[1].tok)
    /\ lastReq.grant = "refresh_token" /\ lastReq.status = 200

----------------------------------------------------------------------------
(* Claims about interactive authorization *)

\* C2: when the callback carries a code together with a state that differs
\* from the attempt's nonce or is missing, authorize_interactive fails with
\* the state-mismatch error and exchange_code is never invoked: no token
\* request is sent, the store and the cache are not written
C2_StateMismatchBlocksExchange ==
    (aiRet.outcome # "none" /\ aiRet.req.code # -1 /\ aiRet.req.state # aiRet.nonce)
        => (aiRet.outcome = "StateMismatch" /\ ~aiRet.exchanged /\ ~aiRet.touched)

\* C2 as amended: the same for a callback that carries a code, no error
\* parameter, and a state that differs from the nonce or is missing
C2_StateMismatchBlocksExchangeAmended ==
    (/\ aiRet.outcome # "none"
     /\ aiRet.req.code # -1 /\ aiRet.req.error = -1
     /\ aiRet.req.state # aiRet.nonce)
        => (aiRet.outcome = "StateMismatch" /\ ~aiRet.exchanged /\ ~aiRet.touched)

\* a callback with a code and the nonce of an earlier attempt was refused
C2_Witness ==
    /\ aiRet.outcome = "StateMismatch"
    /\ aiRet.req.code # -1 /\ aiRet.req.error = -1
    /\ aiRet.req.state = 1 /\ aiRet.nonce = 2

----------------------------------------------------------------------------
(* Claims about the API client *)

\* the concatenation of the records of pages 1..n
RECURSIVE PagesConcat(_, _)
PagesConcat(pages, n) ==
    IF n = 0 THEN <<>> ELSE PagesConcat(pages, n - 1) \o pages[n].records

\* the sum of the record counts of pages 1..n
RECURSIVE PagesTotal(_, _)
PagesTotal(pages, n) ==
    IF n = 0 THEN 0 ELSE PagesTotal(pages, n - 1) + Len(pages[n].records)

\* C9: against an endpoint with k cursor pages and a last page without
\* next_token, _get_paginated returns after exactly k + 1 requests, the first
\* without nextToken and each following one with the next_token just
\* received, and its result is the pages' records in page order, as many as
\* the pages hold together
C9_PaginationFollowsCursor ==
    pgPc = "returned"
        => /\ Len(pgSent) = Len(pgPages)
           /\ \A i \in 1..Len(pgSent) :
                 pgSent[i] = IF i = 1 THEN -1 ELSE pgPages[i - 1].next_token
           /\ allRecords = PagesConcat(pgPages, Len(pgPages))
           /\ Len(allRecords) = PagesTotal(pgPages, Len(pgPages))

\* a fetch over two cursor pages and a last page returned three records
C9_Witness ==
    /\ pgPc = "returned"
    /\ Len(pgPages) = 3 /\ Len(pgSent) = 3
    /\ Len(allRecords) = 3

----------------------------------------------------------------------------
(* Claims about the scrape run *)

\* C7: whatever fetches and upserts fail, once scrape_all has its connection
\* it does not raise, and when it has returned every one of the six
\* categories was attempted and has its entry in the result: success with a
\* record count exactly when the category's fetch and upsert both completed,
\* otherwise failure with a non-empty error string
C7_ScrapeAllIsolatesFailures ==
    /\ scResult = "raised" => \A c \in CategorySet : ~scLog[c].attempted
    /\ scResult = "returned"
        => \A c \in CategorySet :
              /\ scLog[c].attempted
              /\ stats[c].present
              /\ stats[c].success <=> (scLog[c].fetched /\ scLog[c].upserted)
              /\ stats[c].success => stats[c].records >= 0 /\ stats[c].error = ""
              /\ ~stats[c].success => stats[c].error # ""

\* scrape_all returned after the fetch of the first category failed, the
\* upsert of the third was rejected by the server, and the last category,
\* with nothing to store, succeeded
C7_Witness ==
    /\ scResult = "returned"
    /\ stats["user_profile"].error = "http_error"
    /\ stats["body_measurement"].success
    /\ stats["cycles"].error = "db_error"
    /\ stats["recovery"].error = "InFailedSqlTransaction"
    /\ stats["workouts"].success /\ stats["workouts"].records = 0

\* C8: when the scrape command has exited after scrape_all returned, its
\* exit status is non-zero if some category ended with success = false and
\* zero if all six succeeded, and all six categories were attempted
C8_ExitStatusReflectsFailures ==
    (exitCode # -1 /\ scResult = "returned")
        => /\ (exitCode # 0) <=> (\E c \in CategorySet : ~stats[c].success)
           /\ \A c \in CategorySet : scLog[c].attempted

----------------------------------------------------------------------------
(* Claims about the cycle table *)

\* the rows of a table with the id of a record
RowsWithId(rows, record) == {r \in rows : r.id = record.id}

\* a row holds what a record proposes, creation and update instants aside
HoldsPayload(r, record) ==
    LET new == ProposedRow(record, 0)
    IN [r EXCEPT !.created_at = 0, !.updated_at = 0] = new

\* C10: after a cycle is upserted whose id already existed, the table holds
\* exactly one row with this id and every field of it that comes from the
\* payload has the second payload's value
C10_UpsertOverwritesRow ==
    upLast.existed
        => /\ Cardinality(RowsWithId(cycleRows, upLast.payload)) = 1
           /\ \A r \in RowsWithId(cycleRows, upLast.payload) :
                 HoldsPayload(r, upLast.payload)

\* C10 as amended: a statement that upserts a cycle leaves exactly one row
\* with its id and every other row as it was; when the id already existed,
\* the row's end_time and score fields are the second payload's, as the
\* columns store them, and updated_at is the instant of the statement, while
\* user_id, start_time, timezone_offset and created_at are those of the
\* existing row; so a record stored a second time leaves its row as the
\* first time did, updated_at aside
C10_UpsertOverwritesRowAmended ==
    [][upCount' = upCount + 1
        => LET record == upLast'.payload
               new == ProposedRow(record, now)
               before == RowsWithId(cycleRows, record)
               after == RowsWithId(cycleRows', record)
           IN /\ Cardinality(after) = 1
              /\ cycleRows' \ after = cycleRows \ before
              /\ upLast'.existed <=> before # {}
              /\ before = {} => after = {new}
              /\ \A b \in before, a \in after :
                    /\ a.end_time = new.end_time
                    /\ a.score_strain = new.score_strain
                    /\ a.score_kilojoule = new.score_kilojoule
                    /\ a.score_average_heart_rate = new.score_average_heart_rate
                    /\ a.score_max_heart_rate = new.score_max_heart_rate
                    /\ a.updated_at = now
                    /\ a.user_id = b.user_id
                    /\ a.start_time = b.start_time
                    /\ a.timezone_offset = b.timezone_offset
                    /\ a.created_at = b.created_at
                    /\ HoldsPayload(b, record) => a = [b EXCEPT !.updated_at = now]]_vars

\* a later upsert of cycle 1 with another user, start and end changed the
\* end of the row made earlier and left its user and its start
C10_Witness ==
    /\ upLast.existed
    /\ \E r \in RowsWithId(cycleRows, upLast.payload) :
          /\ r.end_time = upLast.payload.end
          /\ r.user_id # upLast.payload.user_id
          /\ r.start_time # upLast.payload.start
          /\ r.created_at < r.updated_at

----------------------------------------------------------------------------
(* Claims about the time-series tables *)

\* C11: after a record is ingested whose key already existed in the table of
\* its category (cycle, recovery, sleep or workout), the row's created_at is
\* what it was, and its end_time and every one of its score columns hold the
\* new payload's values as the columns store them
C11_ReingestOverwritesScores ==
    tsLast.existed
        => \A r \in tsRows :
              r.key = tsLast.payload.key
                  => /\ r.created_at = tsLast.created_before
                     /\ HasEndTime(tsKind) => r.end_time = tsLast.payload.end
                     /\ \A c \in ScoreColumns(tsKind) :
                           r.score[c] = ColumnStore(ScoreColumnTypes(tsKind)[c],
                                                    tsLast.payload.score[c])

----------------------------------------------------------------------------
(* Claims about the expiry check *)

\* C12: is_expired() returns true exactly when the instant of the call is at
\* or after expires_at minus five minutes: true at that boundary instant and
\* at every later one, false one second before it and at every earlier one
C12_IsExpiredBoundary ==
    expiry.at # -1
        => LET boundary == expiry.tok.expires_at - 5 * 60 IN
           /\ expiry.value <=> expiry.at >= boundary
           /\ expiry.at = boundary => expiry.value
           /\ expiry.at = boundary - 1 => ~expiry.value

\* is_expired() has returned true at a boundary instant after the start
C12_Witness ==
    /\ expiry.at > 0
    /\ expiry.at = expiry.tok.expires_at - BufferSeconds
    /\ expiry.value

\* C17: an exchange_code call answered with 200 has saved the parsed token,
\* set the cache to it and returned it; answered with another status it has
\* failed with the HTTP status error and left file, row and cache as they were
C17_ExchangeSavesCachesReturns ==
    [][\A c \in Callers :
          ( /\ pc[c] = "idle" /\ pc'[c] = "idle"
            /\ ret'[c] # ret[c] \/ lastReq' # lastReq
            /\ ret'[c].op = "exchange_code" /\ lastReq'.by = c
            /\ lastReq'.grant = "authorization_code" )
          => IF lastReq'.status = 200
             THEN /\ ret'[c].outcome = "ok"
                  /\ Persisted(ret'[c].tok, file', dbRow')
                  /\ tokens' = ret'[c].tok
             ELSE /\ ret'[c].outcome = "HTTPStatusError"
                  /\ file' = file /\ dbRow' = dbRow /\ tokens' = tokens]_vars

\* C17 as amended: answered with 200 and a body carrying both tokens, the call
\* saves the parsed token; when the save returns, the cache is that token and
\* the call returns it; when the save raises (database store), the call fails
\* with the cache as it was.  A 200 body lacking a token fails the call with
\* nothing written, and so does every other status.
C17_ExchangeSavesCachesReturnsAmended ==
    [][\A c \in Callers :
          ( /\ pc[c] = "idle" /\ pc'[c] = "idle"
            /\ ret'[c] # ret[c] \/ lastReq' # lastReq
            /\ ret'[c].op = "exchange_code" /\ lastReq'.by = c
            /\ lastReq'.grant = "authorization_code" )
          => CASE lastReq'.status = 200 /\ lastReq'.lacks = "none" ->
                    /\ ret'[c].outcome \in {"ok", "PersistenceError"}
                    /\ ret'[c].outcome = "ok"
                          => /\ ret'[c].tok =
                                  Token(issued', issued', ret'[c].tok.expires_at, "bearer")
                             /\ Persisted(ret'[c].tok, file', dbRow')
                             /\ tokens' = ret'[c].tok
                    /\ ret'[c].outcome = "PersistenceError"
                          => /\ storageKind = "db"
                             /\ dbRow' = dbRow /\ tokens' = tokens
               [] lastReq'.status = 200 /\ lastReq'.lacks # "none" ->
                    /\ ret'[c].outcome = "KeyError"
                    /\ file' = file /\ dbRow' = dbRow /\ tokens' = tokens
               [] OTHER ->
                    /\ ret'[c].outcome = "HTTPStatusError"
                    /\ file' = file /\ dbRow' = dbRow /\ tokens' = tokens]_vars

\* exchange_code has returned a token after a 200 answer: it is the cache and
\* the store holds it
C17_Witness ==
    /\ ret[1].op = "exchange_code" /\ ret[1].outcome = "ok"
    /\ lastReq.grant = "authorization_code" /\ lastReq.status = 200
    /\ tokens = ret[1].tok /\ ret[1].persisted

\* C18: a get_valid_token call that found no usable token in the cache and
\* whose storage.load() returned absent fails with the not-authenticated
\* error, sends no request and leaves file, row and cache as they were
C18_NotAuthenticatedWithoutToken ==
    [][\A c \in Callers :
          ( /\ pc[c] = "idle"
            /\ tokens = NoToken \/ IsExpired(tokens, now)
            /\ ret'[c] # ret[c] \/ lastLoad'[c] # lastLoad[c] \/ pc'[c] # pc[c]
            /\ lastLoad'[c].kind = "absent"
            /\ pc'[c] = "refresh_post" => loc'[c].caller = "get_valid_token"
            /\ pc'[c] = "idle" => ret'[c].op = "get_valid_token" )
          => /\ pc'[c] = "idle"
             /\ ret'[c].outcome = "NotAuthenticated"
             /\ lastReq' = lastReq /\ issued' = issued /\ usedOK' = usedOK
             /\ file' = file /\ dbRow' = dbRow /\ tokens' = tokens]_vars

\* get_valid_token has failed with the not-authenticated error on an empty
\* cache and an absent load
C18_Witness ==
    /\ ret[1].op = "get_valid_token" /\ ret[1].outcome = "NotAuthenticated"
    /\ lastLoad[1].kind = "absent"
    /\ tokens = NoToken /\ lastReq = NoRequest

\* C19: refresh_tokens() without argument sends the refresh token of the
\* token storage.load() returned; when load() returned absent it fails with
\* the no-stored-credentials error and no request has been sent
C19_RefreshUsesLoadedToken ==
    [][\A c \in Callers :
          /\ ( /\ pc[c] = "idle"
               /\ ret'[c] # ret[c] \/ lastLoad'[c] # lastLoad[c] \/ pc'[c] # pc[c]
               /\ pc'[c] = "refresh_post" => loc'[c].caller = "refresh_tokens"
               /\ pc'[c] = "idle" => ret'[c].op = "refresh_tokens" )
             => /\ lastReq' = lastReq /\ issued' = issued
                /\ lastLoad'[c].kind = "absent"
                      => /\ pc'[c] = "idle"
                         /\ ret'[c].outcome = "NoStoredCredentials"
                /\ lastLoad'[c].kind = "token"
                      => /\ pc'[c] = "refresh_post"
                         /\ loc'[c].rt = lastLoad'[c].rt
          /\ ( /\ pc[c] = "refresh_post" /\ pc'[c] = "idle"
               /\ loc[c].caller = "refresh_tokens" )
             => /\ lastReq'.grant = "refresh_token"
                /\ lastReq'.refresh_token = lastLoad[c].rt]_vars

\* refresh_tokens() has sent the refresh token of a loaded token that is not
\* the one of the environment
C19_Witness ==
    /\ ret[1].op = "refresh_tokens" /\ ret[1].rtSent # -1
    /\ lastLoad[1].kind = "token" /\ lastLoad[1].rt = ret[1].rtSent
    /\ lastReq.grant = "refresh_token" /\ lastReq.refresh_token = ret[1].rtSent
    /\ ret[1].rtSent # EnvRefresh

\* C20: the file and the row are absent or hold an access token and a
\* refresh token, and a 200 answer lacking access_token or refresh_token makes
\* exchange_code and refresh_tokens fail with file, row and cache as they were
C20_StoredTokenAbsentOrComplete ==
    /\ [](/\ file # NoFile
             => /\ file.content.kind = "object"
                /\ file.content.dict.access_token # -1
                /\ file.content.dict.refresh_token # -1
          /\ dbRow # NoRow
             => /\ Decrypt(cipherOn, dbRow.access_token) # -1
                /\ Decrypt(cipherOn, dbRow.refresh_token) # -1)
    /\ [][( /\ issued' # issued
            /\ lastReq'.status = 200 /\ lastReq'.lacks # "none" )
          => /\ ret'[lastReq'.by].outcome = "KeyError"
             /\ ret'[lastReq'.by].tok = NoToken
             /\ file' = file /\ dbRow' = dbRow /\ tokens' = tokens]_vars

\* a refresh answered with 200 and a body without refresh_token has failed,
\* and the store still holds the token it held
C20_Witness ==
    /\ lastReq.grant = "refresh_token" /\ lastReq.status = 200
    /\ lastReq.lacks = "refresh_token"
    /\ ret[1].outcome = "KeyError"
    /\ Persisted(Token(1, 1, 3 * BufferSeconds, "bearer"), file, dbRow)

\* C13: an authorize_interactive call that had created its listener has
\* closed the listener's socket when it returns or raises
C13_SocketClosedOnEveryExit ==
    (aiRet.outcome # "none" /\ aiRet.listener) => ~aiRet.socketOpen

\* C14: a call whose listener received no request during the wait ends, 300
\* seconds or more after it began, with the authorization-timeout error,
\* without a token exchange and with store, cache and token endpoint
\* untouched; and every call that waits returns
C14_TimeoutWithoutCallback ==
    /\ []((aiRet.waited /\ aiRet.req = NoRequestYet)
             => /\ aiRet.outcome = "AuthorizationTimeout"
                /\ ~aiRet.exchanged /\ ~aiRet.touched
                /\ aiRet.elapsed >= 300)
    /\ (aiPc = "joining") ~> (aiPc = "idle")

\* a call has timed out after 300 seconds without a request
C14_Witness ==
    /\ aiRet.waited /\ aiRet.req = NoRequestYet
    /\ aiRet.outcome = "AuthorizationTimeout"
    /\ aiRet.elapsed = JoinTimeoutSeconds

\* C15: a call whose listener received a request with an error parameter
\* fails with the authorization-denied error carrying that parameter and has
\* not called exchange_code, whatever code and state the request carries
C15_ErrorCallbackDenies ==
    (aiRet.waited /\ aiRet.req.error # -1)
        => /\ aiRet.outcome = "AuthorizationDenied"
           /\ aiRet.reason = aiRet.req.error
           /\ ~aiRet.exchanged /\ ~aiRet.touched

\* a call was denied on a request that carried an error next to a code and
\* the state of this attempt
C15_Witness ==
    /\ aiRet.waited /\ aiRet.outcome = "AuthorizationDenied"
    /\ aiRet.req.error # -1 /\ aiRet.req.code # -1
    /\ aiRet.req.state = aiRet.nonce

\* C16: a listener begins to listen only with a new attempt, takes a request
\* only while it listens and has taken none, and listens no more afterwards;
\* a call whose listener's request carried neither code nor error fails
\* without a token exchange
C16_OneRequestPerAttempt ==
    /\ [][\A a \in 1..MaxAttempts :
             /\ (hPc'[a] = "listening" /\ hPc[a] # "listening")
                   => (attempts' = attempts + 1 /\ a = attempts')
             /\ (hReq'[a] # hReq[a] /\ hReq'[a] # NoRequestYet)
                   => /\ hPc[a] = "listening" /\ hReq[a] = NoRequestYet
                      /\ hPc'[a] # "listening"]_vars
    /\ []((aiRet.waited /\ aiRet.req.status = 400)
             => /\ aiRet.outcome = "AuthorizationTimeout"
                /\ ~aiRet.exchanged /\ ~aiRet.touched)

\* a call has failed after its listener had answered 400 to a request
\* without code and error
C16_Witness ==
    /\ aiRet.waited /\ aiRet.req.status = 400
    /\ aiRet.req.code = -1 /\ aiRet.req.error = -1
    /\ aiRet.outcome = "AuthorizationTimeout" /\ ~aiRet.exchanged

----------------------------------------------------------------------------
(* Claims about the two token stores *)

\* C22: DatabaseTokenStorage.load returns the token of the row whenever a
\* row exists, the bootstrap token of the environment when there is no row
\* and both environment tokens are set, and absent in every other case
C22_DbLoadPrefersRow ==
    (store.op = "load" /\ storageKind = "db")
        => IF dbRow # NoRow
           THEN /\ store.result.kind = "token" /\ store.result.src = "db"
                /\ store.result.tok.access_token = Decrypt(cipherOn, dbRow.access_token)
                /\ store.result.tok.refresh_token = Decrypt(cipherOn, dbRow.refresh_token)
                /\ store.result.tok.expires_at = dbRow.expires_at
           ELSE IF envSet
           THEN /\ store.result.kind = "token" /\ store.result.src = "bootstrap"
                /\ store.result.tok.access_token = EnvAccess
                /\ store.result.tok.refresh_token = EnvRefresh
           ELSE store.result = Absent

\* C22 as amended: when the query succeeds and finds a row, load returns the
\* token of the row (token_type "bearer" for an empty one) if both columns
\* decrypt and raises InvalidToken if not; when the query finds no row or
\* fails, load returns the bootstrap token, expiring at the instant of the
\* load, if both environment tokens are set, and absent otherwise
C22_DbLoadPrefersRowAmended ==
    (store.op = "load" /\ storageKind = "db")
        => IF store.dbOk /\ dbRow # NoRow
           THEN IF DecryptOk(cipherOn, dbRow.access_token)
                   /\ DecryptOk(cipherOn, dbRow.refresh_token)
                THEN /\ store.result.kind = "token" /\ store.result.src = "db"
                     /\ store.result.tok.access_token = Decrypt(cipherOn, dbRow.access_token)
                     /\ store.result.tok.refresh_token
                           = Decrypt(cipherOn, dbRow.refresh_token)
                     /\ store.result.tok.expires_at = dbRow.expires_at
                     /\ store.result.tok.token_type
                           = (IF dbRow.token_type = "" THEN "bearer" ELSE dbRow.token_type)
                ELSE store.result = LoadRaised("InvalidToken")
           ELSE IF envSet
           THEN /\ store.result.kind = "token" /\ store.result.src = "bootstrap"
                /\ store.result.tok.access_token = EnvAccess
                /\ store.result.tok.refresh_token = EnvRefresh
                /\ store.result.tok.expires_at <= now
                /\ IsExpired(store.result.tok, now)
           ELSE store.result = Absent

\* load has returned the token of the row although both environment tokens
\* are set
C22_Witness ==
    /\ store.op = "load" /\ storageKind = "db" /\ envSet
    /\ dbRow # NoRow /\ store.result.src = "db"
    /\ store.result.tok.refresh_token # EnvRefresh

\* C23: DatabaseTokenStorage.load never raises, and a load whose query failed
\* returns what it returns without a row; a save or a clear that meets a
\* database error raises
C23_LoadSwallowsSaveRaises ==
    /\ (store.op = "load" /\ storageKind = "db")
          => /\ store.result.kind # "raise"
             /\ ~store.dbOk
                   => IF envSet
                      THEN store.result.src = "bootstrap"
                      ELSE store.result = Absent
    /\ (store.op \in {"save", "clear"} /\ storageKind = "db" /\ ~store.dbOk)
          => store.result.kind = "raise"

\* C24: with the environment tokens not both set, TokenStorage.load on a
\* malformed token file returns absent
C24_MalformedFileLoadsAbsent ==
    (store.op = "load" /\ storageKind = "file" /\ ~envSet /\ file \in MalformedFiles)
        => store.result = Absent

\* C25: a load of the file store returns, when both environment tokens are
\* set, the token made of them with an expiry one year after the load,
\* whatever the file holds; it returns what the file gives only when they
\* are not both set
C25_FileLoadPrefersEnvironment ==
    [][(store' # store /\ store'.op = "load" /\ storageKind = "file")
          => IF envSet
             THEN store'.result
                     = Loaded(Token(EnvAccess, EnvRefresh, now + 365 * 24 * 3600, "bearer"),
                              "env")
             ELSE /\ store'.result.src # "env"
                  /\ file = NoFile => store'.result = Absent
                  /\ (file # NoFile /\ file.content.kind = "object")
                        => store'.result = Loaded(FromDict(file.content.dict), "file")]_vars

\* a load has returned the environment token while the file held another
\* token
C25_Witness ==
    /\ store.op = "load" /\ storageKind = "file" /\ envSet
    /\ file # NoFile /\ file.content.kind = "object"
    /\ store.result.src = "env"
    /\ store.result.tok.refresh_token # file.content.dict.refresh_token

----------------------------------------------------------------------------
(* Claims about the scrape run *)

\* C26: scrape_all takes the categories in the order user profile, body
\* measurement, cycles, recovery, sleep, workouts: a category is attempted
\* only when every category before it has its outcome, one category at a
\* time, and what a category has left is never touched again
C26_CategoriesInOrder ==
    /\ [](LET order == <<"user_profile", "body_measurement", "cycles", "recovery",
                         "sleep", "workouts">>
          IN \A i, j \in 1..6 :
                (i < j /\ scLog[order[j]].attempted)
                    => (scLog[order[i]].attempted /\ stats[order[i]].present))
    /\ [][\A c \in CategorySet :
             /\ scLog[c].attempted => (scLog'[c] = scLog[c] /\ stats'[c] = stats[c])
             /\ (scLog'[c].attempted /\ ~scLog[c].attempted)
                   => /\ stats'[c].present
                      /\ \A d \in CategorySet \ {c} :
                            scLog'[d] = scLog[d] /\ stats'[d] = stats[d]]_vars

\* the run has dealt with the cycles, whose upsert failed, and not yet with
\* recovery
C26_Witness ==
    /\ scPc = "open"
    /\ scLog["cycles"].attempted /\ scLog["cycles"].fetched /\ ~scLog["cycles"].upserted
    /\ scLog["body_measurement"].attempted /\ scLog["user_profile"].attempted
    /\ ~scLog["recovery"].attempted /\ ~scLog["sleep"].attempted
    /\ ~scLog["workouts"].attempted

\* C30: no category fails because the upsert of an earlier category has left
\* the shared connection in a failed transaction
C30_UpsertFailuresDoNotSpread ==
    \A c \in CategorySet : stats[c].error # "InFailedSqlTransaction"

\* C28: an upsert of cycles, recovery, sleep or workouts called with an
\* empty list returns 0 and leaves the rows, what is committed, the
\* connection's transaction and the last statement executed as they were
C28_EmptyUpsertIsNoOp ==
    [][(upPc = "idle" /\ upPc' = "idle" /\ upCalls' = upCalls + 1)
          => /\ upRet'.result = "ok" /\ upRet'.count = 0
             /\ upRet'.fn \in {"cycle", "recovery", "sleep", "workout"}
             /\ upCount' = 0
             /\ cycleRows' = cycleRows /\ cycleDurable' = cycleDurable
             /\ upTx' = upTx /\ upLast' = upLast]_vars

\* upsert_workouts has returned 0 for an empty list on a connection whose
\* transaction had failed
C28_Witness ==
    /\ upRet = [result |-> "ok", count |-> 0, fn |-> "workout"]
    /\ upTx = "inerror"
    /\ upPc = "idle"

\* C21: every GET the client sends, each page of a paginated fetch included,
\* follows exactly one get_valid_token call of its own and carries the
\* access token that call returned; no request is sent without such a call
C21_EveryRequestAsksForToken ==
    /\ [](clGet.category # "none" => (clGet.calls = 1 /\ clGet.bearer = clGet.returned))
    /\ [][clGet' # clGet
            => /\ clPc = "token" /\ clCalls = 1
               /\ ret[1].op = "get_valid_token" /\ ret[1].outcome = "ok"
               /\ clGet'.bearer = ret[1].tok.access_token]_vars

\* the second page of a paginated fetch was requested with a token that the
\* get_valid_token call made for that page had obtained by a refresh
C21_Witness ==
    /\ clPc = "idle"
    /\ clGet.page = 2
    /\ clGet.category = "cycles"
    /\ ret[1].refreshed /\ ret[1].outcome = "ok"
    /\ clGet.bearer = ret[1].tok.access_token

\* C27: during a run no category is attempted again, and after a refresh
\* request that the token endpoint answered with an error no other refresh
\* request is sent
C27_NothingRetried ==
    /\ [][\A c \in CategorySet : scLog[c].attempted => scLog'[c] = scLog[c]]_vars
    /\ [][(scPc = "open" /\ lastReq.grant = "refresh_token" /\ lastReq.status # 200)
            => ~(pc[1] = "refresh_post" /\ pc'[1] = "idle")]_vars

----------------------------------------------------------------------------
(* Claims about the end of a paginated fetch *)

\* C31: the request whose response has an absent or empty next_token is the
\* last one and the call returns the records accumulated up to that page;
\* after any other response the loop goes on, however many pages it has
\* fetched, so the call never returns from an endpoint every page of which
\* carries a next_token
C31_LoopEndsOnlyOnEmptyCursor ==
    /\ [](NeverEnds(pgPages) => pgPc # "returned")
    /\ [][(pgPc = "loop" /\ pgSent' # pgSent /\ pgPc' # "raised")
            => LET data == ServedPage(pgPages, pgSent'[Len(pgSent')])
               IN /\ pgPc' = "returned" <=> data.next_token \in {-1, 0}
                  /\ pgPc' \in {"returned", "loop"}
                  /\ allRecords' = allRecords \o data.records]_vars

\* the loop is still running after more requests than the endpoint has pages
C31_Witness ==
    /\ pgPc = "loop"
    /\ NeverEnds(pgPages)
    /\ Len(pgSent) > Len(pgPages)

----------------------------------------------------------------------------
(* Claims about the callback handler *)

\* C32: do_GET answers 200 to a request with an error or a code and 400 to
\* a request with neither.  With an error it records the error and nothing
\* else, even when a code is present; with a code and no error it records
\* the code and then the state, and not the error; a request answered 400
\* changes none of the three fields
C32_HandlerRecordsByBranch ==
    [][\A a \in 1..MaxAttempts :
          /\ (hPc[a] = "listening" /\ hPc'[a] # hPc[a] /\ hReq'[a] # NoRequestYet)
                => LET req == hReq'[a] IN
                   /\ req.status = IF req.error # -1 \/ req.code # -1 THEN 200 ELSE 400
                   /\ req.error # -1
                         => /\ hError' = req.error
                            /\ hCode' = hCode /\ hState' = hState
                            /\ hPc'[a] = "finished"
                   /\ (req.error = -1 /\ req.code # -1)
                         => /\ hCode' = req.code
                            /\ hError' = hError
                            /\ hPc'[a] = "code_written"
                   /\ req.status = 400
                         => /\ <<hCode, hState, hError>>' = <<hCode, hState, hError>>
                            /\ hPc'[a] = "finished"
          /\ (hPc[a] = "code_written" /\ hPc'[a] # hPc[a])
                => /\ hState' = hReq[a].state
                   /\ hCode' = hCode /\ hError' = hError]_vars

\* a request with an error and a code was answered 200 and only the error
\* was recorded
C32_Witness ==
    \E a \in 1..MaxAttempts :
        /\ hPc[a] = "finished"
        /\ hReq[a].error = 1 /\ hReq[a].code = 7 /\ hReq[a].status = 200
        /\ hError = 1 /\ hCode = -1 /\ hState = -1

----------------------------------------------------------------------------
(* Claims about tokens built from a token response *)

\* C33: the token built from a response has the response's access and
\* refresh token, expires expires_in seconds after the instant of the parse,
\* 3600 seconds after it when the response has no expires_in, and has the
\* response's token_type, bearer when the response has none
C33_ExpiresAtFromExpiresIn ==
    parsed.outcome = "ok"
        => /\ parsed.tok.expires_at
                 = parsed.at + (IF parsed.resp.expires_in = -1 THEN 3600
                                ELSE parsed.resp.expires_in)
           /\ parsed.tok.token_type
                 = (IF parsed.resp.token_type = "absent" THEN "bearer"
                    ELSE parsed.resp.token_type)
           /\ parsed.tok.access_token = parsed.resp.access_token
           /\ parsed.tok.refresh_token = parsed.resp.refresh_token

\* a response without expires_in and without token_type was parsed after
\* the clock had moved
C33_Witness ==
    /\ parsed.outcome = "ok"
    /\ parsed.at > 0
    /\ parsed.resp.expires_in = -1 /\ parsed.resp.token_type = "absent"
    /\ parsed.tok.expires_at = parsed.at + 3600 /\ parsed.tok.token_type = "bearer"

----------------------------------------------------------------------------
(* Claims about what a refresh or an exchange leaves behind *)

\* C34: when the token endpoint has accepted a refresh or a code exchange
\* and answered with a complete body, the new pair is the cached token or is
\* in the store once the call has returned or raised
C34_NewPairNotLost ==
    [][(issued' = issued + 1 /\ lastReq'.status = 200 /\ lastReq'.lacks = "none")
          => \/ tokens' # NoToken /\ tokens'.refresh_token = issued'
             \/ /\ storageKind = "file" /\ file' # NoFile
                /\ file'.content.kind = "object"
                /\ file'.content.dict.refresh_token = issued'
             \/ /\ storageKind = "db" /\ dbRow' # NoRow
                /\ Decrypt(cipherOn, dbRow'.refresh_token) = issued']_vars

\* C35: a refresh request that the endpoint rejects makes the call raise the
\* HTTP error, and neither the steps of the call before the request nor the
\* rejected request change the file, the row or the cached token
C35_RejectedRefreshChangesNothing ==
    [][\A c \in Callers :
          /\ (pc[c] = "refresh_post" /\ pc'[c] = "idle" /\ lastReq'.status # 200)
                => /\ ret'[c].outcome = "HTTPStatusError"
                   /\ ret'[c].op \in {"refresh_tokens", "get_valid_token"}
                   /\ ret'[c].tok = NoToken
                   /\ file' = file /\ dbRow' = dbRow /\ tokens' = tokens
          /\ (pc[c] = "idle" /\ pc'[c] = "refresh_post")
                => file' = file /\ dbRow' = dbRow /\ tokens' = tokens]_vars

\* get_valid_token has raised on a rejected refresh while an expired token
\* was cached and stored
C35_Witness ==
    /\ ret[1].op = "get_valid_token" /\ ret[1].outcome = "HTTPStatusError"
    /\ lastReq.grant = "refresh_token" /\ lastReq.status = 400
    /\ tokens # NoToken
    /\ ~(file = NoFile /\ dbRow = NoRow)

----------------------------------------------------------------------------
(* Claims about what a failed category leaves in the database *)

\* C36: no row written for a category whose entry says success = false is
\* committed
C36_FailedCategoryCommitsNothing ==
    \A c \in CategorySet :
        (stats[c].present /\ ~stats[c].success) => c \notin scDurable

----------------------------------------------------------------------------
(* Claims about overlapping authorizations *)

\* C37: a call that exchanges a code exchanges the code its own listener
\* received, and that request carried the call's own nonce as state
C37_CodeStaysWithItsAttempt ==
    \A a \in Callers :
        oRet[a].exchanged # -1
            => /\ oRet[a].exchanged = oRet[a].req.code
               /\ oRet[a].req.state = a

\* C38: a call fails with the state-mismatch error only if the state
\* parameter of the request its listener received differs from the call's
\* nonce
C38_MismatchOnlyOnDifferentState ==
    aiRet.outcome = "StateMismatch" => aiRet.req.state # aiRet.nonce

----------------------------------------------------------------------------
(* Claims about the cached token and the cleared store *)

\* C39: a get_valid_token call made while the cached token is not expired
\* returns that token from the cache: it does not load, sends nothing to
\* the token endpoint, and leaves the cache, the file and the row alone
C39_ValidCacheAnswersAlone ==
    [][\A c \in Callers :
          ( /\ tokens # NoToken /\ ~IsExpired(tokens, now)
            /\ pc[c] = "idle"
            /\ \/ /\ pc'[c] = "idle" /\ ret'[c].op = "get_valid_token"
                  /\ <<ret'[c], lastLoad'[c]>> # <<ret[c], lastLoad[c]>>
               \/ pc'[c] = "refresh_post" /\ loc'[c].caller = "get_valid_token" )
          => /\ pc'[c] = "idle"
             /\ ret'[c].outcome = "ok" /\ ret'[c].src = "cache"
             /\ ret'[c].tok = tokens /\ ~ret'[c].refreshed
             /\ lastLoad'[c] = NoLoad
             /\ lastReq' = lastReq /\ issued' = issued
             /\ tokens' = tokens /\ file' = file /\ dbRow' = dbRow]_vars

\* get_valid_token has answered from the cache while the store held
\* something else than the cached token
C39_Witness ==
    /\ ret[1].op = "get_valid_token" /\ ret[1].src = "cache" /\ ret[1].outcome = "ok"
    /\ tokens # NoToken /\ ~IsExpired(tokens, now) /\ ret[1].tok = tokens
    /\ ~Persisted(tokens, file, dbRow)

\* neither a token file nor a token row
StoreEmpty == file = NoFile /\ dbRow = NoRow

\* a step of get_valid_token by an instance without cached token
FreshGetValidToken ==
    /\ tokens = NoToken
    /\ pc[1] = "idle"
    /\ \/ pc'[1] = "idle" /\ ret'[1].op = "get_valid_token" /\ ret'[1] # ret[1]
       \/ pc'[1] = "refresh_post" /\ loc'[1].caller = "get_valid_token"

\* a clear that has completed leaves no file and no row, and none appears
\* before the next save
ClearEmptiesStore ==
    /\ (store'.op = "clear" /\ store'.result = Absent /\ store' # store)
          => StoreEmpty'
    /\ (StoreEmpty /\ ~StoreEmpty')
          => (store'.op = "save" /\ store' # store) \/ lastReq' # lastReq

\* C40: after a completed clear the store is empty until the next save;
\* load on the empty store returns absent, and get_valid_token of an
\* instance without cached token fails with the not-authenticated error
C40_ClearedStoreLoadsAbsent ==
    [][/\ ClearEmptiesStore
       /\ (StoreEmpty /\ store'.op = "load" /\ store' # store)
             => store'.result = Absent
       /\ (StoreEmpty /\ FreshGetValidToken)
             => pc'[1] = "idle" /\ ret'[1].outcome = "NotAuthenticated"]_vars

\* C40 as amended: the same while the environment tokens are not both set;
\* when they are, load returns the token made of them and get_valid_token
\* goes on with it instead of failing as not authenticated
C40_ClearedStoreLoadsAbsentAmended ==
    [][/\ ClearEmptiesStore
       /\ (StoreEmpty /\ store'.op = "load" /\ store' # store)
             => IF envSet
                THEN /\ store'.result.kind = "token"
                     /\ store'.result.src \in {"env", "bootstrap"}
                     /\ store'.result.tok.access_token = EnvAccess
                     /\ store'.result.tok.refresh_token = EnvRefresh
                ELSE store'.result = Absent
       /\ (StoreEmpty /\ FreshGetValidToken)
             => IF envSet
                THEN \/ pc'[1] = "refresh_post" /\ loc'[1].rt = EnvRefresh
                     \/ /\ pc'[1] = "idle" /\ ret'[1].outcome = "ok"
                        /\ ret'[1].tok.access_token = EnvAccess
                ELSE pc'[1] = "idle" /\ ret'[1].outcome = "NotAuthenticated"]_vars

\* after a save and a completed clear, a get_valid_token call found
\* nothing and failed as not authenticated
C40_Witness ==
    /\ store.op = "clear" /\ store.result = Absent
    /\ StoreEmpty /\ ~envSet
    /\ ret[1].op = "get_valid_token" /\ ret[1].outcome = "NotAuthenticated"
    /\ lastLoad[1] = LoadSeen(Absent)

====
